---- MODULE Spec2Model ----
(***************************************************************************)
(* Verification model of the GO DAIKIN <-> MQTT bridge (godaikin package). *)
(*                                                                         *)
(*   SpecPub      Controller.mqtt_publish, the change-gated publisher      *)
(*   SpecAuthSeq  AuthClient.get_jwt_token, one sequential caller          *)
(*   SpecAuth     AuthClient.get_jwt_token called through _api_request by  *)
(*                the poll task and the command task                       *)
(*   SpecCtl      Controller.run: the poll loop and the message loop, any  *)
(*                call may fail                                            *)
(*   SpecCtlLive  the same with no failing call, under fair scheduling     *)
(*   SpecCtlFair  SpecCtl with run's own steps scheduled fairly            *)
(*   SpecCmd      Controller.run with every command topic, where only the  *)
(*                message loop's calls may fail                            *)
(*   SpecPreset   the same with preset_mode commands                       *)
(*   SpecState    publish_aircond_state on any state the cloud may report  *)
(*   SpecEnergy   EnergyCounter driven by publish_sensor_state while the   *)
(*                power flag, the power reading and the clock change       *)
(*   SpecPresetTrip  preset_mode commands on any combination of the       *)
(*                preset flags                                             *)
(*   SpecDevices  the poll loop while a device is added to the account     *)
(*   SpecEnergy2  EnergyCounter with two devices polled in turn            *)
(***************************************************************************)
EXTENDS Integers, Sequences, FiniteSets, TLC

VARIABLES
    payload_cache_by_topic, \* Controller.payload_cache_by_topic: topic -> str
    bus,                    \* the calls made to self.mqtt.publish, in order
    pub_log,                \* history: the calls made to mqtt_publish, in order
    token,                  \* AuthClient.token: CognitoToken | None
    now,                    \* dt.now(), in minutes
    callers,                \* the tasks that share the AuthClient
    auth_pc,                \* where each task is in ApiClient._api_request
    call,                   \* each task's current or last get_jwt_token call
    exchanges,              \* history: the initiate_auth calls, in order
    last_exchange,          \* history: the exchange whose token was assigned last
    airconds_by_unique_id,  \* ApiClient.airconds_by_unique_id (its keys)
    run_pc,                 \* where Controller.run is
    poll_pc,                \* where the controller_loop task is
    poll_queue,             \* the publishes left in the poll task's for loops
    airconds,               \* the list the poll task's get_airconds returned
    msg_pc,                 \* where the message_loop task is
    message,                \* the command the message_loop task is handling
    preempt_state_refresh,  \* Controller.preempt_state_refresh (Event)
    mqtt_topics_by_unique_id, \* Controller.mqtt_topics_by_unique_id (keys)
    server,                 \* the cloud's shadow state of each device
    ncmds,                  \* number of commands received so far
    ntimeouts,              \* number of times the refresh interval elapsed
    patches,                \* history: the patch requests issued, in order
    pending,                \* history: commands patched since the last fetch
    handled,                \* history: commands whose handler has returned
    energy_by_unique_id,    \* EnergyCounter.energy_by_unique_id
    energy_accumulated_at_by_unique_id, \* EnergyCounter's baseline per device
    energy_log              \* history: the accumulate calls made, in order

pubVars == <<payload_cache_by_topic, bus, pub_log>>

authVars == <<token, now, callers, auth_pc, call, exchanges, last_exchange>>

energyVars == <<energy_by_unique_id, energy_accumulated_at_by_unique_id,
                energy_log>>

ctlVars == <<run_pc, poll_pc, poll_queue, airconds, msg_pc, message,
             preempt_state_refresh, mqtt_topics_by_unique_id, server, ncmds,
             ntimeouts, patches, pending, handled, energy_by_unique_id,
             energy_accumulated_at_by_unique_id, energy_log>>

vars == <<payload_cache_by_topic, bus, pub_log, token, now, callers, auth_pc,
          call, exchanges, last_exchange, airconds_by_unique_id, run_pc,
          poll_pc, poll_queue, airconds, msg_pc, message,
          preempt_state_refresh, mqtt_topics_by_unique_id, server, ncmds,
          ntimeouts, patches, pending, handled, energy_by_unique_id,
          energy_accumulated_at_by_unique_id, energy_log>>

None == "<absent>"

\* self.token = None, and the absent value of a token string
NoString == <<"none", 0>>

NoToken == [access_token |-> NoString, id_token |-> NoString,
            refresh_token |-> NoString, expires_at |-> 0]

NoCall == [first |-> FALSE, held |-> NoToken, at |-> 0, from |-> 0,
           arg |-> NoToken, exch |-> 0, built |-> NoToken,
           result |-> NoString]

\* a device EnergyCounter.energy_by_unique_id has no key for, and one
\* energy_accumulated_at_by_unique_id has no key for
NoEnergy == -1

NoTime == -1

(***************************************************************************)
(* Bounds                                                                  *)
(***************************************************************************)
MaxCalls == 3

MaxTime == 4

MaxExchanges == 3

MaxCmds == 2

MaxTimeouts == 1

MaxCycles == 2

MaxClock == 3

(***************************************************************************)
(* Devices and topics: mqtt.py, types.py AircondMqttTopics                 *)
(***************************************************************************)
\* the devices of the account, in the order the API lists them, and an
\* identifier no device has
DeviceList == <<"ac1">>

DeviceIds == {DeviceList[i] : i \in DOMAIN DeviceList}

UnknownId == "ac9"

\* a device added to the account while the bridge runs, and the order in
\* which the API lists the devices the account may hold
LateDevice == "ac2"

CloudDevices == DeviceList \o <<LateDevice>>

CloudIds == {CloudDevices[i] : i \in DOMAIN CloudDevices}

MQTT_PREFIX == "godaikin"

BRIDGE_AVAILABILITY_TOPIC == MQTT_PREFIX \o "/bridge/availability"

DISCOVERY_PREFIX == "homeassistant"

\* AircondMqttTopics.from_aircond; the sensor and configuration documents of
\* discovery.py are represented by one sensor document
StatusTopic(unique_id) == MQTT_PREFIX \o "/" \o unique_id \o "/status"

AvailabilityTopic(unique_id) == MQTT_PREFIX \o "/" \o unique_id \o "/availability"

SensorTopic(unique_id) == MQTT_PREFIX \o "/" \o unique_id \o "/sensor"

DiscoveryTopic(unique_id) ==
    DISCOVERY_PREFIX \o "/climate/" \o unique_id \o "/config"

SensorDiscoveryTopic(unique_id) ==
    DISCOVERY_PREFIX \o "/sensor/" \o unique_id \o "/config"

DeviceTopics(unique_id) ==
    {StatusTopic(unique_id), AvailabilityTopic(unique_id),
     SensorTopic(unique_id), DiscoveryTopic(unique_id),
     SensorDiscoveryTopic(unique_id)}

\* types.py ShadowState: the fields the bridge reads or patches, with the
\* defaults of the dataclass (from_dict leaves a field the response lacks at
\* its default)
ShadowState ==
    [Set_OnOff |-> 0, Set_Mode |-> 0, Set_Temp |-> 0, Set_Fan |-> 0,
     Set_UDLvr |-> 0, Set_LRLvr |-> 0, Set_Swing |-> 0, Set_Turbo |-> 0,
     Set_Breeze |-> 0, Set_Ecoplus |-> 0, Set_Sleep |-> 0, Set_Silent |-> 0,
     Set_SmEcomax |-> 0, Set_SmSleepplus |-> 0, Set_SmPwrfulplus |-> 0,
     Set_LEDOff |-> 0, Set_PwrInd |-> 0, Sta_IDRoomTemp |-> 0,
     Sta_ODAirTemp |-> 0, Sta_ODPwrCon |-> 0, eventType |-> ""]

\* the shadow state of the example API response of types.py (lines 28-146),
\* with the mode code of cooling
ExampleShadow ==
    [ShadowState EXCEPT !.Set_OnOff = 1, !.Set_Mode = 1, !.Set_Temp = 26,
                        !.Set_Fan = 2, !.Set_UDLvr = 15, !.Set_LRLvr = 3,
                        !.Set_Swing = 1, !.Set_PwrInd = 1,
                        !.Sta_IDRoomTemp = 28, !.Sta_ODAirTemp = 27,
                        !.eventType = "connected"]

(***************************************************************************)
(* Change-gated publisher: controller.py, Controller.mqtt_publish          *)
(***************************************************************************)
\* every topic the bridge publishes on
Topics == {BRIDGE_AVAILABILITY_TOPIC} \cup UNION {DeviceTopics(d) : d \in CloudIds}

\* the topics the callers of SpecPub publish on
PubTopics == {BRIDGE_AVAILABILITY_TOPIC, StatusTopic(DeviceList[1])}

\* payload: dict | str.  A dict is the sequence of its <<key, value>> items
\* in insertion order, a value being a str [s |-> ..] or an int [i |-> ..].
StrPayload(str) == [kind |-> "str", str |-> str]

DictPayload(dict) == [kind |-> "dict", dict |-> dict]

StrPayloads == {"online", "{\"mode\": \"off\"}"}

DictPayloads == {<< <<"mode", [s |-> m]>> >> : m \in {"off", "cool"}}

Payloads ==
    {StrPayload(s) : s \in StrPayloads}
        \cup {DictPayload(d) : d \in DictPayloads}

\* float.__repr__ of a non-negative float with at most two decimals, given
\* in hundredths: 0 -> "0.0", 5 -> "0.05", 10 -> "0.1", 123 -> "1.23"
float_repr(hundredths) ==
    LET whole == hundredths \div 100
        frac == hundredths % 100
    IN  ToString(whole) \o "."
            \o (IF frac % 10 = 0 THEN ToString(frac \div 10)
                ELSE (IF frac < 10 THEN "0" ELSE "") \o ToString(frac))

\* json.dumps of a str [s |-> ..], an int [i |-> ..] or a float [f |-> ..]
json_value(v) ==
    IF "s" \in DOMAIN v THEN "\"" \o v.s \o "\""
    ELSE IF "f" \in DOMAIN v THEN float_repr(v.f)
    ELSE ToString(v.i)

RECURSIVE json_items(_)
json_items(items) ==
    IF items = <<>> THEN ""
    ELSE "\"" \o items[1][1] \o "\": " \o json_value(items[1][2])
             \o (IF Len(items) > 1 THEN ", " ELSE "")
             \o json_items(Tail(items))

\* json.dumps of a flat dict, default separators
json_dumps(d) == "{" \o json_items(d) \o "}"

\* lines 334-337: a dict is serialised, a str is sent as it is
PayloadStr(payload) ==
    IF payload.kind = "dict" THEN json_dumps(payload.dict) ELSE payload.str

\* line 341: dict.get(topic)
CachedPayload(cache, topic) == cache[topic]

IsUnchanged_AlwaysChanged(cache, topic, payload_str, only_if_changed) == FALSE

\* lines 339-343: the call returns without publishing
IsUnchanged(cache, topic, payload_str, only_if_changed) ==
    only_if_changed /\ CachedPayload(cache, topic) = payload_str

CacheAfterPublish_AllTopics(cache, topic, payload_str, only_if_changed) ==
    IF only_if_changed /\ CachedPayload(cache, topic) # payload_str
    THEN [t \in DOMAIN cache |-> payload_str]
    ELSE cache

CacheAfterPublish_Ungated(cache, topic, payload_str, only_if_changed) ==
    IF CachedPayload(cache, topic) # payload_str
    THEN [cache EXCEPT ![topic] = payload_str]
    ELSE cache

CacheAfterPublish_FirstOnly(cache, topic, payload_str, only_if_changed) ==
    IF only_if_changed /\ CachedPayload(cache, topic) = None
    THEN [cache EXCEPT ![topic] = payload_str]
    ELSE cache

\* lines 339-345: the cache entry is written before the transmission
CacheAfterPublish(cache, topic, payload_str, only_if_changed) ==
    IF only_if_changed /\ CachedPayload(cache, topic) # payload_str
    THEN [cache EXCEPT ![topic] = payload_str]
    ELSE cache

\* mqtt_publish(topic, payload, qos, retain, only_if_changed); ok = FALSE is
\* self.mqtt.publish raising.
mqtt_publish(topic, payload, only_if_changed, ok) ==
    LET payload_str == PayloadStr(payload)
        skip == IsUnchanged(payload_cache_by_topic, topic, payload_str,
                            only_if_changed)
    IN  /\ payload_cache_by_topic' =
               CacheAfterPublish(payload_cache_by_topic, topic, payload_str,
                                 only_if_changed)
        /\ bus' = IF skip THEN bus
                  ELSE Append(bus, [topic |-> topic, payload |-> payload_str,
                                    ok |-> ok])
        /\ pub_log' = Append(pub_log,
               [topic |-> topic, payload |-> payload_str,
                only_if_changed |-> only_if_changed,
                transmitted |-> ~skip, raised |-> ~skip /\ ~ok])

\* Controller.__init__ and ApiClient.__init__, run not called; the shadow
\* states of the cloud are set by the specification's Init
CtlNew ==
    /\ airconds_by_unique_id = {}
    /\ run_pc = "idle"
    /\ poll_pc = "idle"
    /\ poll_queue = <<>>
    /\ airconds = <<>>
    /\ msg_pc = "idle"
    /\ message = <<>>
    /\ preempt_state_refresh = FALSE
    /\ mqtt_topics_by_unique_id = {}
    /\ ncmds = 0
    /\ ntimeouts = 0
    /\ patches = <<>>
    /\ pending = {}
    /\ handled = {}
    /\ energy_by_unique_id = [d \in CloudIds |-> NoEnergy]
    /\ energy_accumulated_at_by_unique_id = [d \in CloudIds |-> NoTime]
    /\ energy_log = <<>>

PubIdle ==
    /\ payload_cache_by_topic = [t \in Topics |-> None]
    /\ bus = <<>>
    /\ pub_log = <<>>

\* AuthClient.__init__ and ApiClient.__init__, no task started
AuthIdle ==
    /\ token = NoToken
    /\ now = 0
    /\ callers = {}
    /\ auth_pc = [p \in {} |-> "idle"]
    /\ call = [p \in {} |-> NoCall]
    /\ exchanges = <<>>
    /\ last_exchange = 0

\* the cloud holds the shadow state of the example response for each device
CtlIdle ==
    /\ CtlNew
    /\ server = [d \in DeviceIds |-> ExampleShadow]

InitPub == PubIdle /\ AuthIdle /\ CtlIdle

\* a caller of the publisher: any topic, payload and flag, the bus up or down
Publish ==
    /\ Len(pub_log) < MaxCalls
    /\ \E topic \in PubTopics, payload \in Payloads, only_if_changed \in BOOLEAN,
          ok \in BOOLEAN :
          mqtt_publish(topic, payload, only_if_changed, ok)
    /\ UNCHANGED <<authVars, airconds_by_unique_id, ctlVars>>

NextPub == Publish

SpecPub == InitPub /\ [][NextPub]_vars

(***************************************************************************)
(* Credential manager: auth.py, AuthClient, called from                    *)
(* api.py, ApiClient._api_request                                          *)
(***************************************************************************)
\* EXPIRY_BUFFER = timedelta(minutes=5)
EXPIRY_BUFFER == 5

\* AuthenticationResult["ExpiresIn"], in minutes: one lifetime that does not
\* exceed the buffer and one that does
Lifetimes == {EXPIRY_BUFFER, EXPIRY_BUFFER + 2}

Tasks == {"poll", "cmd"}

\* the AuthenticationResult of the n-th initiate_auth call: fresh tokens
AuthenticationResult(n, expires_in) ==
    [AccessToken |-> <<"access", n>>, IdToken |-> <<"id", n>>,
     RefreshToken |-> <<"refresh", n>>, ExpiresIn |-> expires_in]

NeedsRefresh_AtExpiry(tok, t) == tok.expires_at <= t

\* line 34: self.token.expires_at <= dt.now() + EXPIRY_BUFFER
NeedsRefresh(tok, t) == tok.expires_at <= t + EXPIRY_BUFFER

\* lines 58-63: the CognitoToken built from an initial exchange
InitialToken(auth, t) ==
    [access_token |-> auth.AccessToken, id_token |-> auth.IdToken,
     refresh_token |-> auth.RefreshToken, expires_at |-> t + auth.ExpiresIn]

RefreshedToken_KeepsOldIdToken(old, auth, t) ==
    [access_token |-> auth.AccessToken, id_token |-> old.id_token,
     refresh_token |-> old.refresh_token, expires_at |-> t + auth.ExpiresIn]

\* lines 88-93: the CognitoToken built from a refresh exchange
RefreshedToken(old, auth, t) ==
    [access_token |-> auth.AccessToken, id_token |-> auth.IdToken,
     refresh_token |-> old.refresh_token, expires_at |-> t + auth.ExpiresIn]

TokenAfterFailedRefresh_Cleared(tok) == NoToken

\* lines 36, 82-86: AuthError leaves the assignment of line 36 undone
TokenAfterFailedRefresh(tok) == tok

StartsInitial_Always(tok) == TRUE

\* line 30: if not self.token
StartsInitial(tok) == tok = NoToken

\* history of a call: whether it is the task's first, the credential held and
\* the time when it starts, and the exchanges sent before it
NewCall(p) == [first |-> call[p] = NoCall, held |-> token, at |-> now,
               from |-> Len(exchanges), arg |-> NoToken, exch |-> 0,
               built |-> NoToken, result |-> NoString]

\* the record of an initiate_auth call that has been sent
Exchange(kind, p, tok) ==
    [kind |-> kind, by |-> p, status |-> "pending",
     sent |-> tok.refresh_token, for |-> tok, done_at |-> NoTime,
     expires_at |-> 0]

\* lines 34-38 with self.token = tok, inside task p's call c: either the
\* refresh exchange is sent or the identity token is returned
CheckExpiry(p, c, tok, log) ==
    IF NeedsRefresh(tok, now)
    THEN /\ exchanges' = Append(log, Exchange("refresh", p, tok))
         /\ call' = [call EXCEPT ![p] = [c EXCEPT !.arg = tok,
                                                  !.exch = Len(log) + 1]]
         /\ auth_pc' = [auth_pc EXCEPT ![p] = "refresh"]
    ELSE /\ exchanges' = log
         /\ call' = [call EXCEPT ![p] = [c EXCEPT !.result = tok.id_token]]
         /\ auth_pc' = [auth_pc EXCEPT ![p] = "http"]

\* _api_request line 26 and get_jwt_token up to its first await.  The command
\* task gets here only for a device of airconds_by_unique_id (api.py:183).
GetJwtToken(p) ==
    /\ p \in callers
    /\ auth_pc[p] = "idle"
    /\ p = "cmd" => airconds_by_unique_id # {}
    /\ Len(exchanges) < MaxExchanges
    /\ IF StartsInitial(token)
       THEN /\ exchanges' = Append(exchanges, Exchange("init", p, NoToken))
            /\ call' = [call EXCEPT ![p] =
                           [NewCall(p) EXCEPT !.exch = Len(exchanges) + 1]]
            /\ auth_pc' = [auth_pc EXCEPT ![p] = "init"]
       ELSE CheckExpiry(p, NewCall(p), token, exchanges)
    /\ UNCHANGED <<token, now, callers, last_exchange, airconds_by_unique_id>>
    /\ UNCHANGED <<pubVars, ctlVars>>

\* init_cognito_token lines 42-69: initiate_auth returns an
\* AuthenticationResult and the CognitoToken is built with the time of that
\* moment; the task then awaits the exit of the client's context (line 41)
InitialExchangeDone(p) ==
    /\ p \in callers
    /\ auth_pc[p] = "init"
    /\ \E expires_in \in Lifetimes :
          LET n == call[p].exch
              tok == InitialToken(AuthenticationResult(n, expires_in), now)
          IN  /\ exchanges' = [exchanges EXCEPT ![n].status = "ok",
                                                ![n].done_at = now,
                                                ![n].expires_at = now + expires_in]
              /\ call' = [call EXCEPT ![p].built = tok]
    /\ auth_pc' = [auth_pc EXCEPT ![p] = "init_close"]
    /\ UNCHANGED <<token, now, callers, last_exchange, airconds_by_unique_id>>
    /\ UNCHANGED <<pubVars, ctlVars>>

\* init_cognito_token returns: lines 32-38
InitialExchangeClosed(p) ==
    /\ p \in callers
    /\ auth_pc[p] = "init_close"
    /\ token' = call[p].built
    /\ last_exchange' = call[p].exch
    /\ CheckExpiry(p, call[p], call[p].built, exchanges)
    /\ UNCHANGED <<now, callers, airconds_by_unique_id>>
    /\ UNCHANGED <<pubVars, ctlVars>>

\* init_cognito_token raises (no AuthenticationResult, or the client raises)
InitialExchangeFailed(p) ==
    /\ p \in callers
    /\ auth_pc[p] = "init"
    /\ exchanges' = [exchanges EXCEPT ![call[p].exch].status = "failed"]
    /\ auth_pc' = [auth_pc EXCEPT ![p] = "raised"]
    /\ UNCHANGED <<token, now, callers, call, last_exchange, airconds_by_unique_id>>
    /\ UNCHANGED <<pubVars, ctlVars>>

\* refresh_jwt_token lines 73-99: initiate_auth returns an
\* AuthenticationResult and the CognitoToken is built with the time of that
\* moment; the task then awaits the exit of the client's context (line 72)
RefreshExchangeDone(p) ==
    /\ p \in callers
    /\ auth_pc[p] = "refresh"
    /\ \E expires_in \in Lifetimes :
          LET n == call[p].exch
              tok == RefreshedToken(call[p].arg,
                                    AuthenticationResult(n, expires_in), now)
          IN  /\ exchanges' = [exchanges EXCEPT ![n].status = "ok",
                                                ![n].done_at = now,
                                                ![n].expires_at = now + expires_in]
              /\ call' = [call EXCEPT ![p].built = tok]
    /\ auth_pc' = [auth_pc EXCEPT ![p] = "refresh_close"]
    /\ UNCHANGED <<token, now, callers, last_exchange, airconds_by_unique_id>>
    /\ UNCHANGED <<pubVars, ctlVars>>

\* refresh_jwt_token returns: lines 36-38, the expiry is not tested again
RefreshExchangeClosed(p) ==
    /\ p \in callers
    /\ auth_pc[p] = "refresh_close"
    /\ token' = call[p].built
    /\ last_exchange' = call[p].exch
    /\ call' = [call EXCEPT ![p].result = call[p].built.id_token]
    /\ auth_pc' = [auth_pc EXCEPT ![p] = "http"]
    /\ UNCHANGED <<now, callers, exchanges, airconds_by_unique_id>>
    /\ UNCHANGED <<pubVars, ctlVars>>

\* refresh_jwt_token raises AuthError
RefreshExchangeFailed(p) ==
    /\ p \in callers
    /\ auth_pc[p] = "refresh"
    /\ token' = TokenAfterFailedRefresh(token)
    /\ exchanges' = [exchanges EXCEPT ![call[p].exch].status = "failed"]
    /\ auth_pc' = [auth_pc EXCEPT ![p] = "raised"]
    /\ UNCHANGED <<now, callers, call, last_exchange, airconds_by_unique_id>>
    /\ UNCHANGED <<pubVars, ctlVars>>

\* _api_request lines 27-33: the request sent with the token completes; the
\* poll task's request is get_airconds, which fills airconds_by_unique_id
HttpDone(p) ==
    /\ p \in callers
    /\ auth_pc[p] = "http"
    /\ auth_pc' = [auth_pc EXCEPT ![p] = "idle"]
    /\ airconds_by_unique_id' =
           IF p = "poll" THEN DOMAIN server ELSE airconds_by_unique_id
    /\ UNCHANGED <<token, now, callers, call, exchanges, last_exchange>>
    /\ UNCHANGED <<pubVars, ctlVars>>

\* raise_for_status raises: the task ends
HttpFailed(p) ==
    /\ p \in callers
    /\ auth_pc[p] = "http"
    /\ auth_pc' = [auth_pc EXCEPT ![p] = "raised"]
    /\ UNCHANGED <<token, now, callers, call, exchanges, last_exchange,
                   airconds_by_unique_id>>
    /\ UNCHANGED <<pubVars, ctlVars>>

\* a minute passes
Tick ==
    /\ callers # {}
    /\ now < MaxTime
    /\ now' = now + 1
    /\ UNCHANGED <<token, callers, auth_pc, call, exchanges, last_exchange,
                   airconds_by_unique_id>>
    /\ UNCHANGED <<pubVars, ctlVars>>

AuthStarted(tasks) ==
    /\ token = NoToken
    /\ now = 0
    /\ callers = tasks
    /\ auth_pc = [p \in tasks |-> "idle"]
    /\ call = [p \in tasks |-> NoCall]
    /\ exchanges = <<>>
    /\ last_exchange = 0

InitAuth == PubIdle /\ AuthStarted(Tasks) /\ CtlIdle

InitAuthSeq == PubIdle /\ AuthStarted({"poll"}) /\ CtlIdle

NextAuth ==
    \/ \E p \in Tasks : GetJwtToken(p)
    \/ \E p \in Tasks : InitialExchangeDone(p)
    \/ \E p \in Tasks : InitialExchangeClosed(p)
    \/ \E p \in Tasks : InitialExchangeFailed(p)
    \/ \E p \in Tasks : RefreshExchangeDone(p)
    \/ \E p \in Tasks : RefreshExchangeClosed(p)
    \/ \E p \in Tasks : RefreshExchangeFailed(p)
    \/ \E p \in Tasks : HttpDone(p)
    \/ \E p \in Tasks : HttpFailed(p)
    \/ Tick

SpecAuth == InitAuth /\ [][NextAuth]_vars

SpecAuthSeq == InitAuthSeq /\ [][NextAuth]_vars

(***************************************************************************)
(* Bridge controller: controller.py, Controller.run, controller_loop,      *)
(* message_loop and the handlers; api.py, ApiClient                        *)
(***************************************************************************)
\* Aircond.from_api of the device's entry in the API response
Aircond(unique_id) ==
    [unique_id |-> unique_id, shadowState |-> server[unique_id]]

\* the devices the account holds, in the order the API lists them
AccountList == SelectSeq(CloudDevices, LAMBDA d : d \in DOMAIN server)

FetchedAirconds_Stale ==
    IF airconds = <<>>
    THEN [i \in DOMAIN AccountList |-> Aircond(AccountList[i])]
    ELSE airconds

\* the list get_airconds builds from the response (api.py:48-51)
FetchedAirconds == [i \in DOMAIN AccountList |-> Aircond(AccountList[i])]

UniqueIds(list) == {list[i].unique_id : i \in DOMAIN list}

\* Aircond.is_on
is_on(aircond) == aircond.shadowState.Set_OnOff = 1

is_connected_FollowsPower(aircond) == is_on(aircond)

\* Aircond.is_connected
is_connected(aircond) == aircond.shadowState.eventType = "connected"

\* class AircondMode(IntEnum): value -> name
AircondMode == (1 :> "COOL") @@ (2 :> "FAN_ONLY") @@ (4 :> "DRY")

\* class FanSpeed(IntEnum): value -> name
FanSpeed ==
    (128 :> "AUTO") @@ (1 :> "UNKNOWN") @@ (2 :> "LOW") @@ (4 :> "MEDIUM")
        @@ (8 :> "HIGH")

\* class AircondSwing(IntEnum): value -> name
AircondSwing ==
    (0 :> "OFF") @@ (1 :> "STEP_1") @@ (2 :> "STEP_2") @@ (3 :> "STEP_3")
        @@ (4 :> "STEP_4") @@ (5 :> "STEP_5") @@ (15 :> "AUTO")

\* str.lower() of the member names above
Lower(name) ==
    CASE name = "COOL" -> "cool"
      [] name = "FAN_ONLY" -> "fan_only"
      [] name = "DRY" -> "dry"
      [] name = "AUTO" -> "auto"
      [] name = "UNKNOWN" -> "unknown"
      [] name = "LOW" -> "low"
      [] name = "MEDIUM" -> "medium"
      [] name = "HIGH" -> "high"

\* str.title() of the member names of AircondSwing
Title(name) ==
    CASE name = "OFF" -> "Off"
      [] name = "AUTO" -> "Auto"
      [] name = "STEP_1" -> "Step_1"
      [] name = "STEP_2" -> "Step_2"
      [] name = "STEP_3" -> "Step_3"
      [] name = "STEP_4" -> "Step_4"
      [] name = "STEP_5" -> "Step_5"

\* Enum(value) raises ValueError when no member has the value
IsMember(enum, value) == value \in DOMAIN enum

ModeOf_IgnoresPower(aircond) ==
    IF aircond.shadowState.Set_Mode \in DOMAIN AircondMode
    THEN Lower(AircondMode[aircond.shadowState.Set_Mode])
    ELSE "off"

\* publish_aircond_state lines 228-231
ModeOf(aircond) ==
    IF ~is_on(aircond) THEN "off"
    ELSE Lower(AircondMode[aircond.shadowState.Set_Mode])

PresetOf_EcoFirst(aircond) ==
    IF aircond.shadowState.Set_Ecoplus # 0 THEN "eco"
    ELSE IF aircond.shadowState.Set_Turbo # 0 THEN "boost"
    ELSE IF aircond.shadowState.Set_Breeze # 0 THEN "comfort"
    ELSE IF aircond.shadowState.Set_Sleep # 0 THEN "sleep"
    ELSE "none"

\* publish_aircond_state lines 233-242
PresetOf(aircond) ==
    IF aircond.shadowState.Set_Turbo # 0 THEN "boost"
    ELSE IF aircond.shadowState.Set_Breeze # 0 THEN "comfort"
    ELSE IF aircond.shadowState.Set_Ecoplus # 0 THEN "eco"
    ELSE IF aircond.shadowState.Set_Sleep # 0 THEN "sleep"
    ELSE "none"

\* publish_aircond_state lines 231, 244-246: one of the enum lookups raises
\* ValueError, before anything is published
StatusRaises(aircond) ==
    \/ is_on(aircond) /\ ~IsMember(AircondMode, aircond.shadowState.Set_Mode)
    \/ ~IsMember(FanSpeed, aircond.shadowState.Set_Fan)
    \/ ~IsMember(AircondSwing, aircond.shadowState.Set_UDLvr)
    \/ ~IsMember(AircondSwing, aircond.shadowState.Set_LRLvr)

\* publish_aircond_state lines 248-256: the status payload
StatusPayload(aircond) ==
    DictPayload(<<
        <<"mode", [s |-> ModeOf(aircond)]>>,
        <<"temperature", [i |-> aircond.shadowState.Set_Temp]>>,
        <<"current_temperature", [i |-> aircond.shadowState.Sta_IDRoomTemp]>>,
        <<"fan_mode", [s |-> Lower(FanSpeed[aircond.shadowState.Set_Fan])]>>,
        <<"swing_mode",
          [s |-> Title(AircondSwing[aircond.shadowState.Set_UDLvr])]>>,
        <<"swing_horizontal_mode",
          [s |-> Title(AircondSwing[aircond.shadowState.Set_LRLvr])]>>,
        <<"preset_mode", [s |-> PresetOf(aircond)]>> >>)

\* publish_aircond_state line 261
AvailabilityPayload(aircond) ==
    StrPayload(IF is_connected(aircond) THEN "online" ELSE "offline")

(***************************************************************************)
(* Energy counter: energy.py, EnergyCounter.  Time is in minutes and energy *)
(* in watt-minutes: 60000 watt-minutes are one kWh.                        *)
(***************************************************************************)
\* self.energy_by_unique_id.get(unique_id, 0.0)
EnergyOf(energy, unique_id) ==
    IF energy[unique_id] = NoEnergy THEN 0 ELSE energy[unique_id]

reset_energy_if_off_AllDevices(energy, aircond) ==
    IF /\ ~is_on(aircond)
       /\ EnergyOf(energy, aircond.unique_id) > 0
    THEN [d \in DOMAIN energy |-> IF energy[d] = NoEnergy THEN NoEnergy ELSE 0]
    ELSE energy

reset_energy_if_off_Never(energy, aircond) == energy

reset_energy_if_off_WhenNoPower(energy, aircond) ==
    IF /\ ~is_on(aircond) \/ aircond.shadowState.Sta_ODPwrCon = 0
       /\ EnergyOf(energy, aircond.unique_id) > 0
    THEN [energy EXCEPT ![aircond.unique_id] = 0]
    ELSE energy

\* reset_energy_if_off lines 67-76
reset_energy_if_off(energy, aircond) ==
    IF /\ ~is_on(aircond)
       /\ aircond.shadowState.Set_OnOff = 0
       /\ EnergyOf(energy, aircond.unique_id) > 0
    THEN [energy EXCEPT ![aircond.unique_id] = 0]
    ELSE energy

\* lines 31-35
IsActuallyOn(aircond) ==
    /\ is_on(aircond)
    /\ aircond.shadowState.Set_OnOff = 1
    /\ aircond.shadowState.Sta_ODPwrCon > 0

\* lines 38-40: kilowatts * hours_passed_since_last_accum, in watt-minutes
EnergySince(aircond, accumulated_at, t) ==
    (IF IsActuallyOn(aircond) THEN aircond.shadowState.Sta_ODPwrCon ELSE 0)
        * (t - accumulated_at)

IsFirstAccumulation_Never(accumulated_at) == FALSE

\* line 23: if not accumulated_at (a datetime is never false)
IsFirstAccumulation(accumulated_at) == accumulated_at = NoTime

\* accumulate_energy_usage_for_aircond at time t: the value it returns
accumulate_energy_usage_for_aircond(energy, baseline, aircond, t) ==
    LET accumulated_at == baseline[aircond.unique_id]
    IN  IF IsFirstAccumulation(accumulated_at) THEN 0
        ELSE EnergyOf(energy, aircond.unique_id)
                 + EnergySince(aircond, accumulated_at, t)

\* line 58: the first accumulation writes nothing to energy_by_unique_id
EnergyAfterAccumulate(energy, baseline, aircond, t) ==
    IF IsFirstAccumulation(baseline[aircond.unique_id]) THEN energy
    ELSE [energy EXCEPT ![aircond.unique_id] =
              accumulate_energy_usage_for_aircond(energy, baseline, aircond, t)]

BaselineAfterAccumulate_KeptWhenOff(baseline, aircond, t) ==
    IF IsActuallyOn(aircond) \/ baseline[aircond.unique_id] = NoTime
    THEN [baseline EXCEPT ![aircond.unique_id] = t]
    ELSE baseline

\* line 21
BaselineAfterAccumulate(baseline, aircond, t) ==
    [baseline EXCEPT ![aircond.unique_id] = t]

\* publish_sensor_state lines 274-277: reset_energy_if_off, then accumulate
EnergyUsage(aircond) ==
    accumulate_energy_usage_for_aircond(
        reset_energy_if_off(energy_by_unique_id, aircond),
        energy_accumulated_at_by_unique_id, aircond, now)

\* round(energy_usage, 2) of an energy in watt-minutes, in hundredths of a
\* kWh (600 watt-minutes); a tie goes to the even neighbour
Round2(energy) ==
    LET q == energy \div 600
        r == energy % 600
    IN  IF r < 300 THEN q
        ELSE IF r > 300 THEN q + 1
        ELSE IF q % 2 = 0 THEN q ELSE q + 1

PowerOf_Raw(aircond) == aircond.shadowState.Sta_ODPwrCon

\* publish_sensor_state lines 281-295
PowerOf(aircond) ==
    IF aircond.shadowState.Set_OnOff # 1 \/ ~is_on(aircond) THEN 0
    ELSE IF aircond.shadowState.Sta_ODPwrCon > 0 /\ IsActuallyOn(aircond)
    THEN aircond.shadowState.Sta_ODPwrCon
    ELSE 0

\* publish_sensor_state lines 308-316
SensorPayload(aircond, energy_usage) ==
    DictPayload(<<
        <<"Sta_ODPwrCon", [i |-> PowerOf(aircond)]>>,
        <<"Sta_IDRoomTemp", [i |-> aircond.shadowState.Sta_IDRoomTemp]>>,
        <<"Sta_ODAirTemp", [i |-> aircond.shadowState.Sta_ODAirTemp]>>,
        <<"energy", [f |-> Round2(energy_usage)]>>,
        <<"status_led",
          [s |-> IF aircond.shadowState.Set_LEDOff # 0 THEN "OFF" ELSE "ON"]>> >>)

\* the record of an accumulate call made by publish_sensor_state
EnergyObservation(aircond) ==
    [unique_id |-> aircond.unique_id, at |-> now,
     Set_OnOff |-> aircond.shadowState.Set_OnOff,
     Sta_ODPwrCon |-> aircond.shadowState.Sta_ODPwrCon,
     energy_before |-> energy_by_unique_id[aircond.unique_id],
     baseline_before |-> energy_accumulated_at_by_unique_id[aircond.unique_id],
     returned |-> EnergyUsage(aircond),
     reported |-> Round2(EnergyUsage(aircond))]

DiscoveryPayload(aircond) ==
    DictPayload(<< <<"unique_id", [s |-> aircond.unique_id]>> >>)

RECURSIVE Flatten(_)
Flatten(seqs) ==
    IF seqs = <<>> THEN <<>> ELSE seqs[1] \o Flatten(Tail(seqs))

\* publish_discovery lines 193-199: the publishes of its for loops, in order
DiscoveryQueue(list) ==
    Flatten([i \in DOMAIN list |->
        << [aircond |-> list[i], what |-> "discovery"],
           [aircond |-> list[i], what |-> "sensor_discovery"] >>])

RefreshQueue_WithDiscovery(list) ==
    DiscoveryQueue(list)
        \o Flatten([i \in DOMAIN list |->
               << [aircond |-> list[i], what |-> "status"],
                  [aircond |-> list[i], what |-> "availability"],
                  [aircond |-> list[i], what |-> "sensor"] >>])

RefreshQueue_SensorFirst(list) ==
    Flatten([i \in DOMAIN list |->
        << [aircond |-> list[i], what |-> "sensor"],
           [aircond |-> list[i], what |-> "status"],
           [aircond |-> list[i], what |-> "availability"] >>])

\* refresh_state lines 214-216: publish_aircond_state publishes the status and
\* the availability, publish_sensor_state the sensor payload
RefreshQueue(list) ==
    Flatten([i \in DOMAIN list |->
        << [aircond |-> list[i], what |-> "status"],
           [aircond |-> list[i], what |-> "availability"],
           [aircond |-> list[i], what |-> "sensor"] >>])

ItemTopic(item) ==
    CASE item.what = "discovery" -> DiscoveryTopic(item.aircond.unique_id)
      [] item.what = "sensor_discovery" ->
             SensorDiscoveryTopic(item.aircond.unique_id)
      [] item.what = "status" -> StatusTopic(item.aircond.unique_id)
      [] item.what = "availability" -> AvailabilityTopic(item.aircond.unique_id)
      [] item.what = "sensor" -> SensorTopic(item.aircond.unique_id)

ItemPayload(item) ==
    CASE item.what \in {"discovery", "sensor_discovery"} ->
             DiscoveryPayload(item.aircond)
      [] item.what = "status" -> StatusPayload(item.aircond)
      [] item.what = "availability" -> AvailabilityPayload(item.aircond)
      [] item.what = "sensor" ->
             SensorPayload(item.aircond, EnergyUsage(item.aircond))

\* discovery documents are published with the default only_if_changed=False
ItemGated(item) == item.what \in {"status", "availability", "sensor"}

TasksRunning == run_pc \in {"gather", "offline_pub"}

\* the request of get_airconds is sent: a device-list fetch starts
StartFetch ==
    /\ poll_pc' = "fetch"
    /\ pending' = {}

\* run line 32, and on success line 35: both tasks are created
RunAnnounce(ok) ==
    /\ run_pc = "idle"
    /\ mqtt_publish(BRIDGE_AVAILABILITY_TOPIC, StrPayload("online"), FALSE, ok)
    /\ run_pc' = IF ok THEN "gather" ELSE "exited"
    /\ poll_pc' = IF ok THEN "start" ELSE poll_pc
    /\ msg_pc' = IF ok THEN "start" ELSE msg_pc
    /\ UNCHANGED <<poll_queue, airconds, message, preempt_state_refresh,
                   mqtt_topics_by_unique_id, server, ncmds, ntimeouts, patches,
                   pending, handled, airconds_by_unique_id, authVars,
                   energyVars>>

\* controller_loop line 43, publish_discovery line 192: get_airconds is sent
PollBegin ==
    /\ TasksRunning
    /\ poll_pc = "start"
    /\ poll_pc' = "discovery_fetch"
    /\ pending' = {}
    /\ UNCHANGED <<run_pc, poll_queue, airconds, msg_pc, message,
                   preempt_state_refresh, mqtt_topics_by_unique_id, server,
                   ncmds, ntimeouts, patches, handled, airconds_by_unique_id,
                   authVars, energyVars, pubVars>>

AfterFailedFetch_Swallowed(pc) == "wait"

\* controller_loop lines 43-46: nothing catches the exception of
\* publish_discovery or refresh_state, the task ends with it
AfterFailedFetch(pc) == "failed"

\* get_airconds of publish_discovery returns (api.py:48-54) or raises
DiscoveryFetched(ok) ==
    /\ TasksRunning
    /\ poll_pc = "discovery_fetch"
    /\ IF ok
       THEN /\ airconds' = FetchedAirconds
            /\ airconds_by_unique_id' = UniqueIds(FetchedAirconds)
            /\ poll_queue' = DiscoveryQueue(FetchedAirconds)
            /\ poll_pc' = "discovery_pub"
       ELSE /\ poll_pc' = AfterFailedFetch(poll_pc)
            /\ UNCHANGED <<airconds, airconds_by_unique_id, poll_queue>>
    /\ UNCHANGED <<run_pc, msg_pc, message, preempt_state_refresh,
                   mqtt_topics_by_unique_id, server, ncmds, ntimeouts, patches,
                   pending, handled, authVars, energyVars, pubVars>>

\* get_mqtt_topics lines 203-206, called for the discovery documents only
TopicsAfter(item) ==
    IF item.what \in {"discovery", "sensor_discovery"}
    THEN mqtt_topics_by_unique_id \cup {item.aircond.unique_id}
    ELSE mqtt_topics_by_unique_id

\* lines 226 and 271: self.mqtt_topics_by_unique_id[aircond.unique_id], the
\* first statement of publish_aircond_state and of publish_sensor_state
TopicsKnown(item) ==
    item.what \in {"status", "sensor"}
        => item.aircond.unique_id \in mqtt_topics_by_unique_id

\* publish_aircond_state or publish_sensor_state raises before its first
\* publish: KeyError of the lookup of the topics (lines 226, 271), or
\* ValueError of an enum lookup of the status payload
ItemRaises(item) ==
    \/ ~TopicsKnown(item)
    \/ item.what = "status" /\ StatusRaises(item.aircond)

\* the next publish of publish_discovery (line 199) or of refresh_state
\* (lines 257, 262, 318), with the code that runs before it since the last
\* await: the derivation of the status payload, which may raise, and for the
\* sensor payload reset_energy_if_off and accumulate.  A skipped publish does
\* not suspend the task; taking it as a step of its own only adds
\* interleavings.  After the last discovery document refresh_state sends
\* get_airconds, after the last state publish the task enters wait_for.
PollPublish(ok) ==
    /\ TasksRunning
    /\ poll_pc \in {"discovery_pub", "publish"}
    /\ poll_queue # <<>>
    /\ LET item == Head(poll_queue)
       IN  /\ mqtt_topics_by_unique_id' = TopicsAfter(item)
           /\ poll_queue' = Tail(poll_queue)
           /\ IF ItemRaises(item)
              THEN /\ poll_pc' = "failed"
                   /\ UNCHANGED <<pending, pubVars, energyVars>>
              ELSE LET raised ==
                           /\ ~ok
                           /\ ~IsUnchanged(payload_cache_by_topic,
                                           ItemTopic(item),
                                           PayloadStr(ItemPayload(item)),
                                           ItemGated(item))
                   IN  /\ mqtt_publish(ItemTopic(item), ItemPayload(item),
                                       ItemGated(item), ok)
                       /\ IF item.what = "sensor"
                          THEN /\ energy_by_unique_id' =
                                      EnergyAfterAccumulate(
                                          reset_energy_if_off(
                                              energy_by_unique_id, item.aircond),
                                          energy_accumulated_at_by_unique_id,
                                          item.aircond, now)
                               /\ energy_accumulated_at_by_unique_id' =
                                      BaselineAfterAccumulate(
                                          energy_accumulated_at_by_unique_id,
                                          item.aircond, now)
                               /\ energy_log' =
                                      Append(energy_log,
                                             EnergyObservation(item.aircond))
                          ELSE UNCHANGED energyVars
                       /\ IF raised
                          THEN poll_pc' = "failed" /\ UNCHANGED pending
                          ELSE IF Tail(poll_queue) # <<>>
                          THEN UNCHANGED <<poll_pc, pending>>
                          ELSE IF poll_pc = "discovery_pub"
                          THEN StartFetch
                          ELSE poll_pc' = "wait" /\ UNCHANGED pending
    /\ UNCHANGED <<run_pc, airconds, msg_pc, message, preempt_state_refresh,
                   server, ncmds, ntimeouts, patches, handled,
                   airconds_by_unique_id, authVars>>

\* get_airconds of refresh_state returns (line 213) or raises
RefreshFetched(ok) ==
    /\ TasksRunning
    /\ poll_pc = "fetch"
    /\ IF ok
       THEN /\ airconds' = FetchedAirconds
            /\ airconds_by_unique_id' = UniqueIds(FetchedAirconds)
            /\ poll_queue' = RefreshQueue(FetchedAirconds)
            /\ poll_pc' = IF FetchedAirconds = <<>> THEN "wait" ELSE "publish"
       ELSE /\ poll_pc' = AfterFailedFetch(poll_pc)
            /\ UNCHANGED <<airconds, airconds_by_unique_id, poll_queue>>
    /\ UNCHANGED <<run_pc, msg_pc, message, preempt_state_refresh,
                   mqtt_topics_by_unique_id, server, ncmds, ntimeouts, patches,
                   pending, handled, authVars, energyVars, pubVars>>

\* lines 49-52: wait_for ends because preempt_state_refresh.wait() returned
PollWoken ==
    /\ TasksRunning
    /\ poll_pc = "wait"
    /\ preempt_state_refresh
    /\ poll_pc' = "woken"
    /\ UNCHANGED <<run_pc, poll_queue, airconds, msg_pc, message,
                   preempt_state_refresh, mqtt_topics_by_unique_id, server,
                   ncmds, ntimeouts, patches, pending, handled,
                   airconds_by_unique_id, authVars, energyVars, pubVars>>

ClearedSignal_Kept(signal) == signal

\* line 53: self.preempt_state_refresh.clear()
ClearedSignal(signal) == FALSE

\* line 53, then line 46: the signal is cleared and get_airconds is sent
PollClearAndRefresh ==
    /\ TasksRunning
    /\ poll_pc = "woken"
    /\ preempt_state_refresh' = ClearedSignal(preempt_state_refresh)
    /\ StartFetch
    /\ UNCHANGED <<run_pc, poll_queue, airconds, msg_pc, message,
                   mqtt_topics_by_unique_id, server, ncmds, ntimeouts, patches,
                   handled, airconds_by_unique_id, authVars, energyVars,
                   pubVars>>

\* lines 54-55, then line 46: the refresh interval elapsed (also at the
\* moment the signal is set: wait_for may then still raise TimeoutError); the
\* signal is left as it is and get_airconds is sent
RefreshIntervalElapsed(max) ==
    /\ TasksRunning
    /\ poll_pc = "wait"
    /\ ntimeouts < max
    /\ ntimeouts' = ntimeouts + 1
    /\ StartFetch
    /\ UNCHANGED <<run_pc, poll_queue, airconds, msg_pc, message,
                   preempt_state_refresh, mqtt_topics_by_unique_id, server,
                   ncmds, patches, handled, airconds_by_unique_id, authVars,
                   energyVars, pubVars>>

PollTimeout == RefreshIntervalElapsed(MaxTimeouts)

\* message_loop lines 74-77: subscribe returns or raises
MsgSubscribed(ok) ==
    /\ TasksRunning
    /\ msg_pc = "start"
    /\ msg_pc' = IF ok THEN "recv" ELSE "failed"
    /\ UNCHANGED <<run_pc, poll_pc, poll_queue, airconds, message,
                   preempt_state_refresh, mqtt_topics_by_unique_id, server,
                   ncmds, ntimeouts, patches, pending, handled,
                   airconds_by_unique_id, authVars, energyVars, pubVars>>

\* message_loop line 74: the subscription f"{MQTT_PREFIX}/+/set/+" delivers
\* only topics <prefix>/<id>/set/<key>, so handle_message line 88 unpacks four
\* parts and action is "set".  The keys the commands below use: keys of
\* handle_set_message and one it has no case for.
SetKeys == {"temperature", "mode", "fan_mode", "swing_mode", "brightness"}

\* the keys of the commands of SpecCtl and SpecCtlLive
CtlKeys == {"temperature", "brightness"}

\* the key of the commands of SpecPreset
PresetKeys == {"preset_mode"}

\* the payloads of <prefix>/<id>/set/temperature commands
TemperaturePayloads == {"24.0", "25.9", "abc"}

\* the payloads sent with each key: a value the handler knows and one it does
\* not know
SetPayloads(key) ==
    CASE key = "temperature" -> TemperaturePayloads
      [] key = "mode" -> {"cool", "heat"}
      [] key = "fan_mode" -> {"low", "turbo"}
      [] key = "preset_mode" ->
             {"none", "comfort", "eco", "boost", "sleep", "turbo"}
      [] key = "swing_mode" -> {"auto", "diagonal"}
      [] key = "swing_horizontal_mode" -> {"step_3", "diagonal"}
      [] key = "status_led" -> {"ON", "OFF"}
      [] OTHER -> {"1"}

\* float(payload) raises ValueError
IsFloat(payload) == payload \in {"24.0", "25.9"}

\* line 118: int(float(payload)), which truncates
IntOfFloat(payload) ==
    CASE payload = "24.0" -> 24
      [] payload = "25.9" -> 25

\* str.upper() of the payloads above
Upper(payload) ==
    CASE payload = "low" -> "LOW"
      [] payload = "turbo" -> "TURBO"
      [] payload = "auto" -> "AUTO"
      [] payload = "step_3" -> "STEP_3"
      [] payload = "diagonal" -> "DIAGONAL"
      [] OTHER -> payload

\* Enum[name] raises KeyError when no member has the name
HasName(enum, name) == \E v \in DOMAIN enum : enum[v] = name

ValueOfName(enum, name) == CHOOSE v \in DOMAIN enum : enum[v] = name

PresetOfPayload_Eco(payload) ==
    IF payload \in {"none", "comfort", "eco", "boost", "sleep"} THEN payload
    ELSE "eco"

\* AircondPreset(preset_mode), and NONE when that raises ValueError
\* (handle_set_preset_mode lines 150-154)
PresetOfPayload(payload) ==
    IF payload \in {"none", "comfort", "eco", "boost", "sleep"} THEN payload
    ELSE "none"

\* handle_set_message line 118 and the handlers' lines 167, 173 and 179: the
\* handler raises ValueError or KeyError before it calls the API client
HandlerRaises(key, payload) ==
    \/ key = "temperature" /\ ~IsFloat(payload)
    \/ key = "fan_mode" /\ ~HasName(FanSpeed, Upper(payload))
    \/ key \in {"swing_mode", "swing_horizontal_mode"}
           /\ ~HasName(AircondSwing, Upper(payload))

\* handle_set_mode lines 133-143 with api.py turn_off and set_mode
ModeState(payload) ==
    CASE payload = "off" -> << <<"Set_OnOff", 0>> >>
      [] payload = "cool" -> << <<"Set_OnOff", 1>>, <<"Set_Mode", 1>> >>
      [] payload = "dry" -> << <<"Set_OnOff", 1>>, <<"Set_Mode", 4>> >>
      [] payload = "fan_only" -> << <<"Set_OnOff", 1>>, <<"Set_Mode", 2>> >>
      [] OTHER -> <<>>

\* api.py set_preset lines 87-124
PresetState(preset) ==
    CASE preset = "none" ->
             << <<"Set_Breeze", 0>>, <<"Set_Ecoplus", 0>>, <<"Set_Silent", 0>>,
                <<"Set_Sleep", 0>>, <<"Set_SmEcomax", 0>>,
                <<"Set_SmSleepplus", 0>>, <<"Set_SmPwrfulplus", 0>>,
                <<"Set_Turbo", 0>> >>
      [] preset = "comfort" ->
             << <<"Set_Breeze", 1>>, <<"Set_LRLvr", 0>>, <<"Set_Swing", 0>> >>
      [] preset = "eco" -> << <<"Set_Ecoplus", 1>>, <<"Set_SmEcomax", 0>> >>
      [] preset = "boost" -> << <<"Set_Silent", 0>>, <<"Set_Turbo", 1>> >>
      [] preset = "sleep" -> << <<"Set_Sleep", 1>>, <<"SetSmSleepplus", 0>> >>

\* api.py set_swing lines 144-154
SwingState(swing, horizontal) ==
    IF horizontal THEN << <<"Set_LRLvr", swing>> >>
    ELSE << <<"Set_Swing", IF AircondSwing[swing] = "AUTO" THEN 1 ELSE 0>>,
            <<"Set_UDLvr", swing>> >>

\* api.py set_status_led lines 177-180, on = (on_or_off == "ON")
StatusLedState(payload) ==
    IF payload = "ON" THEN << <<"Set_LEDOff", 0>>, <<"Set_PwrInd", 1>> >>
    ELSE << <<"Set_LEDOff", 1>>, <<"Set_PwrInd", 0>> >>

\* handle_message lines 83-92 and handle_set_message lines 110-125, for a
\* command whose handler does not raise: the desired state the command sends
\* to the device, <<>> when no request is sent (the key matches no case, or
\* the mode is not known)
DesiredState(key, payload) ==
    CASE key = "mode" -> ModeState(payload)
      [] key = "fan_mode" ->
             << <<"Set_Fan", ValueOfName(FanSpeed, Upper(payload))>> >>
      [] key = "preset_mode" -> PresetState(PresetOfPayload(payload))
      [] key = "temperature" -> << <<"Set_Temp", IntOfFloat(payload)>> >>
      [] key = "swing_mode" ->
             SwingState(ValueOfName(AircondSwing, Upper(payload)), FALSE)
      [] key = "swing_horizontal_mode" ->
             SwingState(ValueOfName(AircondSwing, Upper(payload)), TRUE)
      [] key = "status_led" -> StatusLedState(payload)
      [] OTHER -> <<>>

AwaitsMessage_WhilePatching(pc) == pc \in {"recv", "patch"}

\* message_loop lines 79-80: the next message is taken from the queue only
\* when handle_message has returned for the one before
AwaitsMessage(pc) == pc = "recv"

Message(unique_id, key, payload) ==
    [id |-> ncmds + 1, unique_id |-> unique_id, key |-> key,
     payload |-> payload]

\* a command for a device of airconds_by_unique_id arrives and is handled up
\* to the await of its patch request (_set_desired_state lines 183-196)
ReceiveSet(keys) ==
    /\ TasksRunning
    /\ AwaitsMessage(msg_pc)
    /\ ncmds < MaxCmds
    /\ \E unique_id \in airconds_by_unique_id, key \in keys :
       \E payload \in SetPayloads(key) :
          LET m == Message(unique_id, key, payload)
          IN  /\ ~HandlerRaises(key, payload)
              /\ DesiredState(key, payload) # <<>>
              /\ message' = m
              /\ patches' = Append(patches,
                     [id |-> m.id, unique_id |-> unique_id,
                      desired |-> DesiredState(key, payload)])
              /\ pending' = pending \cup {m.id}
    /\ ncmds' = ncmds + 1
    /\ msg_pc' = "patch"
    /\ UNCHANGED <<run_pc, poll_pc, poll_queue, airconds,
                   preempt_state_refresh, mqtt_topics_by_unique_id, server,
                   ntimeouts, handled, airconds_by_unique_id, authVars,
                   energyVars, pubVars>>

\* a command with a key handle_set_message has no case for, or with a mode
\* handle_set_mode does not know: no request is sent, line 128 sets the signal
ReceiveUnknownKey(keys) ==
    /\ TasksRunning
    /\ AwaitsMessage(msg_pc)
    /\ ncmds < MaxCmds
    /\ \E unique_id \in DeviceIds \cup {UnknownId}, key \in keys :
       \E payload \in SetPayloads(key) :
          /\ ~HandlerRaises(key, payload)
          /\ DesiredState(key, payload) = <<>>
          /\ message' = Message(unique_id, key, payload)
    /\ ncmds' = ncmds + 1
    /\ preempt_state_refresh' = TRUE
    /\ handled' = handled \cup {ncmds + 1}
    /\ UNCHANGED <<run_pc, poll_pc, poll_queue, airconds, msg_pc,
                   mqtt_topics_by_unique_id, server, ntimeouts, patches,
                   pending, airconds_by_unique_id, authVars, energyVars,
                   pubVars>>

\* a command that patches a device that is not in airconds_by_unique_id:
\* api.py line 183 raises KeyError, which ends the message loop
ReceiveUnknownDevice(keys) ==
    /\ TasksRunning
    /\ AwaitsMessage(msg_pc)
    /\ ncmds < MaxCmds
    /\ \E unique_id \in (DeviceIds \cup {UnknownId}) \ airconds_by_unique_id,
          key \in keys :
       \E payload \in SetPayloads(key) :
          /\ ~HandlerRaises(key, payload)
          /\ DesiredState(key, payload) # <<>>
          /\ message' = Message(unique_id, key, payload)
    /\ ncmds' = ncmds + 1
    /\ msg_pc' = "failed"
    /\ UNCHANGED <<run_pc, poll_pc, poll_queue, airconds,
                   preempt_state_refresh, mqtt_topics_by_unique_id, server,
                   ntimeouts, patches, pending, handled,
                   airconds_by_unique_id, authVars, energyVars, pubVars>>

\* a command whose value the handler cannot convert: line 118 raises
\* ValueError, lines 167, 173 and 179 raise KeyError; nothing catches it in
\* handle_message or message_loop, so the message loop ends
ReceiveMalformed(keys) ==
    /\ TasksRunning
    /\ AwaitsMessage(msg_pc)
    /\ ncmds < MaxCmds
    /\ \E unique_id \in DeviceIds \cup {UnknownId}, key \in keys :
       \E payload \in SetPayloads(key) :
          /\ HandlerRaises(key, payload)
          /\ message' = Message(unique_id, key, payload)
    /\ ncmds' = ncmds + 1
    /\ msg_pc' = "failed"
    /\ UNCHANGED <<run_pc, poll_pc, poll_queue, airconds,
                   preempt_state_refresh, mqtt_topics_by_unique_id, server,
                   ntimeouts, patches, pending, handled,
                   airconds_by_unique_id, authVars, energyVars, pubVars>>

\* the cloud applies a desired state to the device's shadow
Patched(shadow, desired) ==
    [f \in DOMAIN shadow |->
        IF \E i \in DOMAIN desired : desired[i][1] = f
        THEN desired[CHOOSE i \in DOMAIN desired : desired[i][1] = f][2]
        ELSE shadow[f]]

SignalAfterFailedPatch_Set(signal) == TRUE

\* lines 119-128: the exception of the patch request leaves
\* handle_set_message before line 128
SignalAfterFailedPatch(signal) == signal

SignalAfterCommand_NotSet(signal) == signal

\* line 128: self.preempt_state_refresh.set()
SignalAfterCommand(signal) == TRUE

\* the patch request returns and handle_set_message reaches line 128, or the
\* request raises and ends the message loop
PatchDone(ok) ==
    /\ TasksRunning
    /\ msg_pc = "patch"
    /\ IF ok
       THEN /\ server' = [server EXCEPT ![message.unique_id] =
                   Patched(@, patches[Len(patches)].desired)]
            /\ preempt_state_refresh' =
                   SignalAfterCommand(preempt_state_refresh)
            /\ handled' = handled \cup {message.id}
            /\ msg_pc' = "recv"
       ELSE /\ msg_pc' = "failed"
            /\ preempt_state_refresh' =
                   SignalAfterFailedPatch(preempt_state_refresh)
            /\ UNCHANGED <<server, handled>>
    /\ UNCHANGED <<run_pc, poll_pc, poll_queue, airconds, message,
                   mqtt_topics_by_unique_id, ncmds, ntimeouts, patches,
                   pending, airconds_by_unique_id, authVars, energyVars,
                   pubVars>>

RunFinally_NoFinally(ok) ==
    /\ run_pc = "gather"
    /\ poll_pc = "failed" \/ msg_pc = "failed"
    /\ run_pc' = "offline_pub"
    /\ UNCHANGED <<poll_pc, poll_queue, airconds, msg_pc, message,
                   preempt_state_refresh, mqtt_topics_by_unique_id, server,
                   ncmds, ntimeouts, patches, pending, handled,
                   airconds_by_unique_id, authVars, energyVars, pubVars>>

\* lines 35-40: gather raises the exception of the task that failed and the
\* finally clause sends the bridge-offline announcement
RunFinally(ok) ==
    /\ run_pc = "gather"
    /\ poll_pc = "failed" \/ msg_pc = "failed"
    /\ mqtt_publish(BRIDGE_AVAILABILITY_TOPIC, StrPayload("offline"), FALSE, ok)
    /\ run_pc' = "offline_pub"
    /\ UNCHANGED <<poll_pc, poll_queue, airconds, msg_pc, message,
                   preempt_state_refresh, mqtt_topics_by_unique_id, server,
                   ncmds, ntimeouts, patches, pending, handled,
                   airconds_by_unique_id, authVars, energyVars>>

Cancelled(pc) == IF pc = "failed" THEN pc ELSE "cancelled"

\* publish_bridge_offline returns or raises and run ends; asyncio.run then
\* cancels the task that is still running (main.py:45)
RunExit ==
    /\ run_pc = "offline_pub"
    /\ run_pc' = "exited"
    /\ poll_pc' = Cancelled(poll_pc)
    /\ msg_pc' = Cancelled(msg_pc)
    /\ UNCHANGED <<poll_queue, airconds, message, preempt_state_refresh,
                   mqtt_topics_by_unique_id, server, ncmds, ntimeouts, patches,
                   pending, handled, airconds_by_unique_id, authVars,
                   energyVars, pubVars>>

InitCtl == PubIdle /\ AuthIdle /\ CtlIdle

PollNext(oks) ==
    \/ PollBegin
    \/ \E ok \in oks : DiscoveryFetched(ok)
    \/ \E ok \in oks : PollPublish(ok)
    \/ \E ok \in oks : RefreshFetched(ok)
    \/ PollWoken
    \/ PollClearAndRefresh

MsgNext(oks) ==
    \/ \E ok \in oks : MsgSubscribed(ok)
    \/ \E ok \in oks : PatchDone(ok)

NextCtl ==
    \/ \E ok \in BOOLEAN : RunAnnounce(ok)
    \/ PollNext(BOOLEAN)
    \/ PollTimeout
    \/ MsgNext(BOOLEAN)
    \/ ReceiveSet(CtlKeys)
    \/ ReceiveUnknownKey(CtlKeys)
    \/ ReceiveUnknownDevice(CtlKeys)
    \/ ReceiveMalformed(CtlKeys)
    \/ \E ok \in BOOLEAN : RunFinally(ok)
    \/ RunExit

SpecCtl == InitCtl /\ [][NextCtl]_vars

\* the commands use every key of SetKeys; the handlers and the patch
\* requests may fail, the poll loop's requests and publishes do not
NextCmd ==
    \/ RunAnnounce(TRUE)
    \/ PollNext({TRUE})
    \/ PollTimeout
    \/ MsgNext(BOOLEAN)
    \/ ReceiveSet(SetKeys)
    \/ ReceiveUnknownKey(SetKeys)
    \/ ReceiveUnknownDevice(SetKeys)
    \/ ReceiveMalformed(SetKeys)
    \/ RunFinally(TRUE)
    \/ RunExit

SpecCmd == InitCtl /\ [][NextCmd]_vars

\* SpecCtl under the scheduling of the event loop: run is resumed once
\* gather has raised, and publish_bridge_offline returns or raises
SpecCtlFair ==
    /\ InitCtl
    /\ [][NextCtl]_vars
    /\ WF_vars(\E ok \in BOOLEAN : RunFinally(ok))
    /\ WF_vars(RunExit)

\* the commands set a preset, one the bridge knows or one it does not; the
\* patch requests may fail, the poll loop's requests and publishes do not
NextPreset ==
    \/ RunAnnounce(TRUE)
    \/ PollNext({TRUE})
    \/ PollTimeout
    \/ MsgNext(BOOLEAN)
    \/ ReceiveSet(PresetKeys)
    \/ ReceiveUnknownDevice(PresetKeys)
    \/ RunFinally(TRUE)
    \/ RunExit

SpecPreset == InitCtl /\ [][NextPreset]_vars

\* no call fails: every request and publish succeeds and no handler raises
NextCtlLive ==
    \/ RunAnnounce(TRUE)
    \/ PollNext({TRUE})
    \/ PollTimeout
    \/ MsgNext({TRUE})
    \/ ReceiveSet(CtlKeys)
    \/ ReceiveUnknownKey(CtlKeys)

\* the event loop runs every task that can continue and every request is
\* answered; nothing obliges a command to arrive or the interval to elapse
SpecCtlLive ==
    /\ InitCtl
    /\ [][NextCtlLive]_vars
    /\ WF_vars(RunAnnounce(TRUE))
    /\ WF_vars(PollNext({TRUE}))
    /\ WF_vars(MsgNext({TRUE}))

(***************************************************************************)
(* The poll loop over the states the vendor's cloud may report              *)
(***************************************************************************)
\* the codes the cloud reports: members of the enums, the dataclass default
\* 0 and a code no enum has
ModeCodes == {0, 1, 4}

FanCodes == {0, 2, 128}

SwingCodes == {7, 15}

Flags == {0, 1}

EventTypes == {"connected", "disconnected"}

\* the power readings, in watts
PowerReadings == {0, 600}

VendorShadows ==
    {[ExampleShadow EXCEPT !.Set_OnOff = f[1], !.Set_Mode = m,
                           !.Set_Fan = fan, !.Set_UDLvr = ud,
                           !.Set_Turbo = f[2], !.Set_Breeze = f[3],
                           !.Set_Ecoplus = f[4], !.Set_Sleep = f[5],
                           !.Sta_ODPwrCon = p, !.eventType = e] :
        f \in [1 .. 5 -> Flags], m \in ModeCodes, fan \in FanCodes,
        ud \in SwingCodes, p \in PowerReadings, e \in EventTypes}

InitState ==
    /\ PubIdle
    /\ AuthIdle
    /\ CtlNew
    /\ server \in [DeviceIds -> VendorShadows]

\* the start of the bridge up to the end of the first poll cycle, no command
\* arriving; a state the derivation of a payload raises on ends the run
NextState ==
    \/ RunAnnounce(TRUE)
    \/ PollBegin
    \/ DiscoveryFetched(TRUE)
    \/ PollPublish(TRUE)
    \/ RefreshFetched(TRUE)
    \/ MsgSubscribed(TRUE)
    \/ RunFinally(TRUE)
    \/ RunExit

SpecState == InitState /\ [][NextState]_vars

(***************************************************************************)
(* Preset commands on any combination of the preset flags                  *)
(***************************************************************************)
\* the shadow states of every combination of the four preset flags
PresetShadows ==
    {[ExampleShadow EXCEPT !.Set_Turbo = f[1], !.Set_Breeze = f[2],
                           !.Set_Ecoplus = f[3], !.Set_Sleep = f[4]] :
        f \in [1 .. 4 -> Flags]}

InitPresetTrip ==
    /\ PubIdle
    /\ AuthIdle
    /\ CtlNew
    /\ server \in [DeviceIds -> PresetShadows]

\* preset commands arrive while the poll loop publishes the state of a device
\* whose preset flags are in any combination; no call fails
NextPresetTrip ==
    \/ RunAnnounce(TRUE)
    \/ PollNext({TRUE})
    \/ MsgNext({TRUE})
    \/ ReceiveSet(PresetKeys)

SpecPresetTrip == InitPresetTrip /\ [][NextPresetTrip]_vars

(***************************************************************************)
(* The poll loop while time passes and the device is switched on and off   *)
(***************************************************************************)
\* the power flag and the power reading of the states of SpecEnergy
PowerShadows ==
    {[ExampleShadow EXCEPT !.Set_OnOff = f, !.Sta_ODPwrCon = p] :
        f \in Flags, p \in PowerReadings}

\* the device is switched or its power reading changes.  The poll loop sees
\* the shadow state only in the response of a fetch and reads the clock only
\* in publish_sensor_state, so it is enough to let the state change and the
\* time pass while the loop is in wait_for, where it spends its time, and
\* the time pass also before the first response.
ShadowChanges ==
    /\ poll_pc = "wait"
    /\ \E d \in DOMAIN server, shadow \in PowerShadows :
          /\ shadow # server[d]
          /\ server' = [server EXCEPT ![d] = shadow]
    /\ UNCHANGED <<run_pc, poll_pc, poll_queue, airconds, msg_pc, message,
                   preempt_state_refresh, mqtt_topics_by_unique_id, ncmds,
                   ntimeouts, patches, pending, handled,
                   airconds_by_unique_id, authVars, energyVars, pubVars>>

\* a minute passes
Wait ==
    /\ poll_pc \in {"discovery_fetch", "wait"}
    /\ now < MaxClock
    /\ now' = now + 1
    /\ UNCHANGED <<token, callers, auth_pc, call, exchanges, last_exchange,
                   airconds_by_unique_id, pubVars, ctlVars>>

InitEnergy ==
    /\ PubIdle
    /\ AuthIdle
    /\ CtlNew
    /\ server \in [DeviceIds -> PowerShadows]

\* no request and no publish fails and no command arrives; the refresh
\* interval elapses up to MaxCycles times
NextEnergy ==
    \/ RunAnnounce(TRUE)
    \/ PollBegin
    \/ DiscoveryFetched(TRUE)
    \/ PollPublish(TRUE)
    \/ RefreshFetched(TRUE)
    \/ RefreshIntervalElapsed(MaxCycles)
    \/ ShadowChanges
    \/ Wait

SpecEnergy == InitEnergy /\ [][NextEnergy]_vars

(***************************************************************************)
(* The poll loop while the account's device list changes                   *)
(***************************************************************************)
\* a device is added to the account: the next response of get_airconds
\* lists it (api.py:48-51 builds the list from the response alone)
DeviceAppears ==
    /\ LateDevice \notin DOMAIN server
    /\ \E shadow \in PowerShadows :
          server' = [d \in DOMAIN server \cup {LateDevice} |->
                        IF d = LateDevice THEN shadow ELSE server[d]]
    /\ UNCHANGED <<run_pc, poll_pc, poll_queue, airconds, msg_pc, message,
                   preempt_state_refresh, mqtt_topics_by_unique_id, ncmds,
                   ntimeouts, patches, pending, handled,
                   airconds_by_unique_id, authVars, energyVars, pubVars>>

\* the account holds one device at startup; no request and no publish fails
\* and no command arrives
NextDevices ==
    \/ RunAnnounce(TRUE)
    \/ PollBegin
    \/ DiscoveryFetched(TRUE)
    \/ PollPublish(TRUE)
    \/ RefreshFetched(TRUE)
    \/ RefreshIntervalElapsed(MaxCycles)
    \/ DeviceAppears
    \/ Wait
    \/ RunFinally(TRUE)
    \/ RunExit

SpecDevices == InitEnergy /\ [][NextDevices]_vars

\* the account holds two devices from startup on
InitEnergy2 ==
    /\ PubIdle
    /\ AuthIdle
    /\ CtlNew
    /\ server \in [CloudIds -> PowerShadows]

\* a device that is on is switched off while the poll loop waits
SwitchedOff ==
    /\ poll_pc = "wait"
    /\ \E d \in DOMAIN server :
          /\ server[d].Set_OnOff = 1
          /\ server' = [server EXCEPT ![d].Set_OnOff = 0]
    /\ UNCHANGED <<run_pc, poll_pc, poll_queue, airconds, msg_pc, message,
                   preempt_state_refresh, mqtt_topics_by_unique_id, ncmds,
                   ntimeouts, patches, pending, handled,
                   airconds_by_unique_id, authVars, energyVars, pubVars>>

\* as NextEnergy, the only change of a shadow state being a switch-off
NextEnergy2 ==
    \/ RunAnnounce(TRUE)
    \/ PollBegin
    \/ DiscoveryFetched(TRUE)
    \/ PollPublish(TRUE)
    \/ RefreshFetched(TRUE)
    \/ RefreshIntervalElapsed(MaxCycles)
    \/ SwitchedOff
    \/ Wait

SpecEnergy2 == InitEnergy2 /\ [][NextEnergy2]_vars

(***************************************************************************)
(* Claims about the change-gated publisher (checked under SpecPub)         *)
(***************************************************************************)
\* the gated calls made so far on a topic, in call order
GatedCallsOn(topic) ==
    SelectSeq(pub_log, LAMBDA r : r.topic = topic /\ r.only_if_changed)

NumTransmitted(calls) ==
    Cardinality({i \in DOMAIN calls : calls[i].transmitted})

\* C1: two consecutive gated publishes on one topic cause exactly one bus
\* transmission when the second serialized payload equals the first and two
\* when it differs: the first gated publish on a topic is transmitted, and
\* each following one is transmitted exactly when its serialized payload
\* differs from that of the gated publish before it.
C1_TwoGatedPublishes ==
    \A topic \in Topics :
        LET g == GatedCallsOn(topic)
        IN  /\ Len(g) >= 2 =>
                   NumTransmitted(SubSeq(g, 1, 2)) =
                       IF g[2].payload = g[1].payload THEN 1 ELSE 2
            /\ \A i \in 1 .. Len(g) - 1 :
                   g[i + 1].transmitted <=> g[i + 1].payload # g[i].payload
            /\ Len(bus) = NumTransmitted(pub_log)

\* an identical pair followed by a differing payload, all gated, one topic
C1_Witness ==
    \E topic \in Topics :
        LET g == GatedCallsOn(topic)
        IN  /\ Len(g) = 3
            /\ g[2].payload = g[1].payload
            /\ g[3].payload # g[2].payload
            /\ Len(bus) = 2

\* the payload of the last gated publish on the topic whose transmission
\* succeeded, None when there is none
LastTransmittedOk(topic) ==
    LET ok == SelectSeq(pub_log, LAMBDA r : /\ r.topic = topic
                                            /\ r.only_if_changed
                                            /\ r.transmitted
                                            /\ ~r.raised)
    IN  IF ok = <<>> THEN None ELSE ok[Len(ok)].payload

\* C2: the cache entry of every topic is the last payload successfully
\* transmitted on it by a gated publish (a failed transmission leaves the
\* entry as it was).
C2_CacheIsLastTransmitted ==
    \A topic \in Topics :
        payload_cache_by_topic[topic] = LastTransmittedOk(topic)

\* C3: gating is per topic.  A gated publish on a topic leaves the cache
\* entries of all other topics unchanged; a gated publish whose payload
\* differs from its own topic's entry is transmitted whatever was skipped on
\* other topics; a skipped publish touches neither the bus nor the cache.
C3_PerTopicGating ==
    [][pub_log' # pub_log =>
          LET r == pub_log'[Len(pub_log')]
          IN  /\ r.only_if_changed =>
                     \A t2 \in Topics \ {r.topic} :
                         payload_cache_by_topic'[t2] = payload_cache_by_topic[t2]
              /\ (r.only_if_changed /\ payload_cache_by_topic[r.topic] # r.payload)
                     => /\ r.transmitted
                        /\ Len(bus') = Len(bus) + 1
                        /\ bus'[Len(bus')].topic = r.topic
                        /\ bus'[Len(bus')].payload = r.payload
              /\ ~r.transmitted =>
                     /\ bus' = bus
                     /\ payload_cache_by_topic' = payload_cache_by_topic]_vars

\* a publish skipped on one topic, then a changed payload transmitted on
\* another topic whose entry was already set
C3_Witness ==
    /\ Len(pub_log) = 3
    /\ pub_log[1].only_if_changed /\ pub_log[1].transmitted
    /\ pub_log[2].only_if_changed /\ ~pub_log[2].transmitted
    /\ pub_log[3].only_if_changed /\ pub_log[3].transmitted
    /\ pub_log[1].topic = pub_log[2].topic
    /\ pub_log[3].topic # pub_log[2].topic
    /\ payload_cache_by_topic[pub_log[2].topic] = pub_log[2].payload

\* C4: a publish with only_if_changed = false is always transmitted and
\* leaves the whole cache as it was.
C4_UngatedAlwaysTransmits ==
    [][pub_log' # pub_log =>
          LET r == pub_log'[Len(pub_log')]
          IN  ~r.only_if_changed =>
                  /\ r.transmitted
                  /\ Len(bus') = Len(bus) + 1
                  /\ bus'[Len(bus')].topic = r.topic
                  /\ bus'[Len(bus')].payload = r.payload
                  /\ payload_cache_by_topic' = payload_cache_by_topic]_vars

\* an ungated publish of the very payload the cache holds for its topic, and
\* one of a payload the cache does not hold
C4_Witness ==
    /\ Len(pub_log) = 3
    /\ pub_log[1].only_if_changed
    /\ ~pub_log[2].only_if_changed /\ pub_log[2].transmitted
    /\ pub_log[2].topic = pub_log[1].topic
    /\ pub_log[2].payload = pub_log[1].payload
    /\ ~pub_log[3].only_if_changed /\ pub_log[3].transmitted
    /\ pub_log[3].topic = pub_log[1].topic
    /\ pub_log[3].payload # pub_log[1].payload
    /\ payload_cache_by_topic[pub_log[1].topic] = pub_log[1].payload
    /\ Len(bus) = 3

(***************************************************************************)
(* Claims about the credential manager                                     *)
(***************************************************************************)
\* the exchanges sent by task p's current or last get_jwt_token call
CallExchanges(p) ==
    SelectSeq(SubSeq(exchanges, call[p].from + 1, Len(exchanges)),
              LAMBDA e : e.by = p)

NumKind(ex, kind) == Cardinality({i \in DOMAIN ex : ex[i].kind = kind})

\* C5 (SpecAuthSeq): the first call sends exactly one initial exchange; a
\* call that starts with now + buffer before the held credential's expiry
\* sends no exchange; a call that starts with expiry - buffer at or before
\* now sends exactly one refresh exchange, carrying the refresh token held,
\* and no initial exchange.
C5_ExchangesPerCall ==
    \A p \in callers :
        LET c == call[p]
            ex == CallExchanges(p)
        IN  c # NoCall =>
                /\ c.first <=> c.held = NoToken
                /\ c.first => NumKind(ex, "init") = 1 /\ ex[1].kind = "init"
                /\ (c.held # NoToken /\ c.at + EXPIRY_BUFFER < c.held.expires_at)
                       => ex = <<>>
                /\ (c.held # NoToken /\ c.held.expires_at - EXPIRY_BUFFER <= c.at)
                       => /\ Len(ex) = 1
                          /\ ex[1].kind = "refresh"
                          /\ ex[1].sent = c.held.refresh_token

\* a later call that found the credential within the buffer, refreshed it
\* and returned the new identity token
C5_Witness ==
    \E p \in callers :
        /\ auth_pc[p] = "http"
        /\ ~call[p].first
        /\ call[p].held.expires_at - EXPIRY_BUFFER <= call[p].at
        /\ call[p].at > 0
        /\ Len(CallExchanges(p)) = 1
        /\ call[p].result = token.id_token
        /\ call[p].result # call[p].held.id_token

\* C6 (SpecAuth): at most one initial exchange is ever sent, and at most one
\* refresh exchange is sent for any one held credential.
C6_NoDuplicateExchanges ==
    /\ NumKind(exchanges, "init") <= 1
    /\ \A i, j \in DOMAIN exchanges :
           (/\ i < j
            /\ exchanges[i].kind = "refresh"
            /\ exchanges[j].kind = "refresh")
               => exchanges[i].for # exchanges[j].for

C8_CredentialReplacedWholesale ==
    /\ token = NoToken <=> last_exchange = 0
    /\ token # NoToken =>
           LET n == last_exchange
           IN  /\ exchanges[n].status = "ok"
               /\ token.access_token = <<"access", n>>
               /\ token.id_token = <<"id", n>>
               /\ token.expires_at = exchanges[n].expires_at
               /\ \E m \in DOMAIN exchanges :
                      /\ exchanges[m].kind = "init"
                      /\ exchanges[m].status = "ok"
                      /\ token.refresh_token = <<"refresh", m>>

\* the credential after two successful refresh exchanges
C8_Witness ==
    \E i, j \in DOMAIN exchanges :
        /\ i < j
        /\ exchanges[i].kind = "refresh" /\ exchanges[i].status = "ok"
        /\ exchanges[j].kind = "refresh" /\ exchanges[j].status = "ok"
        /\ last_exchange = j
        /\ token.expires_at # exchanges[i].expires_at

\* every exchange that succeeded so far yielded a credential whose lifetime
\* exceeds the buffer
LifetimesExceedBuffer ==
    \A i \in DOMAIN exchanges :
        exchanges[i].status = "ok" =>
            exchanges[i].expires_at - exchanges[i].done_at > EXPIRY_BUFFER

\* get_jwt_token returns to task p in this step
Returns(p) == auth_pc[p] # "http" /\ auth_pc'[p] = "http"

\* C33 as stated: provided every exchange yields a credential whose lifetime
\* exceeds the buffer, the token get_jwt_token returns is the identity token
\* of the credential held at that moment, and that credential's expiry is
\* strictly later than now + buffer at the moment of return.
C33_ReturnedTokenBuffered ==
    [][\A p \in Tasks :
          (Returns(p) /\ LifetimesExceedBuffer') =>
              /\ call'[p].result = token'.id_token
              /\ token'.expires_at > now' + EXPIRY_BUFFER]_vars

\* C33, amended: the token returned is the identity token of the credential
\* held at the moment of return.  When the call returns without having
\* refreshed, the credential's expiry is strictly later than now + buffer at
\* that moment; when it returns after its refresh exchange, the credential is
\* the one built from that exchange, whose expiry is strictly later than the
\* time the exchange's response was processed + buffer.
C33_ReturnedTokenHeld ==
    [][\A p \in Tasks :
          (Returns(p) /\ LifetimesExceedBuffer') =>
              /\ call'[p].result = token'.id_token
              /\ IF auth_pc[p] = "refresh_close"
                 THEN /\ last_exchange' = call[p].exch
                      /\ token'.expires_at
                             > exchanges[call[p].exch].done_at + EXPIRY_BUFFER
                 ELSE token'.expires_at > now' + EXPIRY_BUFFER]_vars

\* both tasks have a token: one returned after its refresh exchange, whose
\* client took time to close, the other found that credential fresh
C33_Witness ==
    /\ LifetimesExceedBuffer
    /\ \E p \in callers, q \in callers :
           /\ p # q
           /\ auth_pc[p] = "http"
           /\ auth_pc[q] = "http"
           /\ call[p].exch # 0
           /\ exchanges[call[p].exch].kind = "refresh"
           /\ call[p].result = token.id_token
           /\ call[q].result = token.id_token
           /\ call[q].exch = 0
           /\ exchanges[call[p].exch].done_at < call[q].at
           /\ token.expires_at > now + EXPIRY_BUFFER

(***************************************************************************)
(* Claims about the bridge controller                                      *)
(***************************************************************************)
IsBridgePublish(m, payload) ==
    m.topic = BRIDGE_AVAILABILITY_TOPIC /\ m.payload = payload

\* run has announced bridge-online: line 32 returned
Announced == run_pc \notin {"idle"} /\ bus # <<>> /\ bus[1].ok

TaskFailed == poll_pc = "failed" \/ msg_pc = "failed"

\* C9 (SpecCtl): once bridge-online is announced, run leaves only after one of
\* the two loops has terminated, and by then a bridge-offline publish has
\* been issued after the online announcement.
C9_OfflineBeforeExit ==
    /\ bus = <<>> \/ IsBridgePublish(bus[1], "online")
    /\ (Announced /\ run_pc \in {"offline_pub", "exited"}) =>
           /\ TaskFailed
           /\ \E i \in 2 .. Len(bus) : IsBridgePublish(bus[i], "offline")
    /\ (Announced /\ TaskFailed /\ run_pc = "gather") => ENABLED RunFinally(TRUE)

\* run has exited after a command's patch request failed while the poll loop
\* was still running
C9_Witness ==
    /\ run_pc = "exited"
    /\ Announced
    /\ msg_pc = "failed"
    /\ poll_pc = "cancelled"
    /\ patches # <<>>
    /\ IsBridgePublish(bus[Len(bus)], "offline")

\* C10 (SpecCtlLive): every command whose handler has returned is followed by
\* a device-list fetch that starts after its patch request was issued.  Until
\* that fetch starts the signal stays set, and the fetch comes without the
\* refresh interval having to elapse (PollTimeout is under no fairness).
C10_NoCommandLost ==
    /\ [](\A c \in handled \cap pending : preempt_state_refresh)
    /\ \A c \in 1 .. MaxCmds :
           (c \in handled /\ c \in pending) ~> (c \notin pending)

\* two commands handled, and a fetch started after both without the refresh
\* interval ever elapsing
C10_Witness ==
    /\ Len(patches) = 2
    /\ handled = {1, 2}
    /\ pending = {}
    /\ ntimeouts = 0
    /\ poll_pc = "fetch"
    /\ ~preempt_state_refresh

(***************************************************************************)
(* Claims about inbound commands                                           *)
(***************************************************************************)
\* the value of a command is not one its key knows: an unknown mode, fan
\* speed name or swing position name, or a temperature that is no number
IsMalformed(m) ==
    \/ m.key = "mode" /\ m.payload \notin {"off", "cool", "dry", "fan_only"}
    \/ m.key = "fan_mode" /\ ~HasName(FanSpeed, Upper(m.payload))
    \/ m.key \in {"swing_mode", "swing_horizontal_mode"}
           /\ ~HasName(AircondSwing, Upper(m.payload))
    \/ m.key = "temperature" /\ ~IsFloat(m.payload)

HasPatch(id) == \E i \in DOMAIN patches : patches[i].id = id

\* C11 (SpecCmd): a malformed command is never fatal.  Once the message loop
\* has taken a command with an unknown mode, fan speed name or swing position
\* name or a non-numeric temperature, its handler has returned, no patch
\* request was issued for it, the message loop is consuming messages and the
\* poll loop runs.
C11_MalformedCommandNotFatal ==
    (ncmds > 0 /\ IsMalformed(message)) =>
        /\ message.id \in handled
        /\ ~HasPatch(message.id)
        /\ msg_pc = "recv"
        /\ poll_pc \notin {"failed", "cancelled"}
        /\ run_pc = "gather"

\* the handling of the current message ends in this step: in the step that
\* takes it when no patch request is awaited, else when the request returns
HandlingEnds ==
    \/ ncmds' # ncmds /\ msg_pc' # "patch"
    \/ msg_pc = "patch" /\ msg_pc' = "recv"

\* the client of the Device API raises for the device: api.py line 183
ApiKeyError(m) ==
    /\ ~HandlerRaises(m.key, m.payload)
    /\ DesiredState(m.key, m.payload) # <<>>
    /\ m.unique_id \notin airconds_by_unique_id

\* C12 (SpecCmd): when the handling of an inbound command ends, whether its
\* key or its value is known or not, the preemption signal is set (commands
\* that end in a failure of the Device API client are left aside).
C12_SignalSetAfterEveryCommand ==
    [][(HandlingEnds /\ ~ApiKeyError(message')) => preempt_state_refresh']_vars

\* C13 (SpecCmd): the patch request of a set command is issued before the
\* signal is set for it.  The signal becomes set only in a step that ends the
\* handling of a command; if the command calls for a patch, the request was
\* issued in an earlier step with the command's device and desired state;
\* and a patch request that fails leaves the signal and the handled commands
\* as they were.
C13_PatchBeforeSignal ==
    [][/\ (preempt_state_refresh' /\ ~preempt_state_refresh)
              => /\ handled' = handled \cup {message'.id}
                 /\ message'.id \notin handled
       /\ handled' # handled =>
              LET m == message'
              IN  /\ ~HandlerRaises(m.key, m.payload)
                  /\ preempt_state_refresh'
                  /\ DesiredState(m.key, m.payload) # <<>> =>
                         \E i \in DOMAIN patches :
                             /\ patches[i].id = m.id
                             /\ patches[i].unique_id = m.unique_id
                             /\ patches[i].desired =
                                    DesiredState(m.key, m.payload)
       /\ (msg_pc = "patch" /\ msg_pc' = "failed")
              => /\ preempt_state_refresh' = preempt_state_refresh
                 /\ handled' = handled]_vars

\* the patch request of the second command has failed after the first
\* command was handled and the poll loop had cleared its signal
C13_Witness ==
    /\ msg_pc = "failed"
    /\ Len(patches) = 2
    /\ handled = {1}
    /\ message.id = 2
    /\ HasPatch(2)
    /\ ~preempt_state_refresh

\* the patch request issued for command c
PatchOf(c) == patches[CHOOSE i \in DOMAIN patches : patches[i].id = c]

IsTemperaturePatch(patch) == patch.desired[1][1] = "Set_Temp"

\* the temperatures asked for by command c and by the commands after it
TemperaturesSince(c) ==
    {patches[i].desired[1][2] :
        i \in {j \in DOMAIN patches : /\ patches[j].id >= c
                                      /\ IsTemperaturePatch(patches[j])}}

\* publish_aircond_state has just handed the status payload of the fetched
\* device d to the publisher
StatusHandedOver(d) ==
    /\ poll_pc = "publish"
    /\ poll_queue # <<>>
    /\ Head(poll_queue).what = "availability"
    /\ Head(poll_queue).aircond.unique_id = d
    /\ pub_log[Len(pub_log)].topic = StatusTopic(d)
    /\ pub_log[Len(pub_log)].only_if_changed
    /\ pub_log[Len(pub_log)].payload =
           PayloadStr(StatusPayload(Head(poll_queue).aircond))

\* C14 (SpecCtlLive): end to end.  A temperature command "24.0" for a known
\* device has exactly one patch request, which carries the integer 24 for
\* that device; once it is handled the signal is set until a fetch starts;
\* and then a fetch that started after the patch request is followed by a
\* status payload handed to the publisher which carries the temperature of
\* the fetched state, that of the command or of a later one.
C14_TemperatureEndToEnd ==
    /\ []((ncmds > 0 /\ message.key = "temperature"
                     /\ message.payload = "24.0") =>
             /\ Cardinality({i \in DOMAIN patches :
                                 patches[i].id = message.id}) = 1
             /\ PatchOf(message.id).unique_id = message.unique_id
             /\ PatchOf(message.id).desired = << <<"Set_Temp", 24>> >>)
    /\ [](\A c \in handled \cap pending : preempt_state_refresh)
    /\ \A c \in 1 .. MaxCmds :
           (c \in handled /\ c \in pending /\ IsTemperaturePatch(PatchOf(c)))
               ~> (/\ c \notin pending
                   /\ HasPatch(c)
                   /\ StatusHandedOver(PatchOf(c).unique_id)
                   /\ Head(poll_queue).aircond.shadowState.Set_Temp
                          \in TemperaturesSince(c)
                   /\ Head(poll_queue).aircond = airconds[1])

\* the command "24.0" was handled, the poll loop woke without the interval
\* elapsing, fetched, and handed over a status payload with temperature 24
C14_Witness ==
    /\ ncmds = 1
    /\ message.payload = "24.0"
    /\ handled = {1}
    /\ pending = {}
    /\ ntimeouts = 0
    /\ StatusHandedOver(message.unique_id)
    /\ Head(poll_queue).aircond.shadowState.Set_Temp = 24
    /\ server[message.unique_id].Set_Temp = 24
    /\ ~preempt_state_refresh

(***************************************************************************)
(* Claims about the energy counter (checked under SpecEnergy)              *)
(***************************************************************************)
\* the accumulate calls made for device d, in call order
LogOf(d) == SelectSeq(energy_log, LAMBDA o : o.unique_id = d)

\* the device was on with power p > 0 at the call
OnWith(o, p) == o.Set_OnOff = 1 /\ o.Sta_ODPwrCon = p /\ p > 0

ActuallyOn(o) == o.Set_OnOff = 1 /\ o.Sta_ODPwrCon > 0

\* C15: the first accumulate call for a device returns 0 whenever it is
\* made, and over calls i < j such that the device is on with one positive
\* power P at every call after i up to j, the energy grows by P times the
\* time from call i to call j, whatever the number of calls in between.
C15_ConstantPowerEnergy ==
    \A d \in DeviceIds :
        LET log == LogOf(d)
        IN  /\ log # <<>> => log[1].returned = 0
            /\ \A i, j \in DOMAIN log :
                   \A p \in PowerReadings :
                       (i < j /\ \A k \in i + 1 .. j : OnWith(log[k], p))
                           => log[j].returned - log[i].returned
                                  = p * (log[j].at - log[i].at)

\* a first call after time has passed, then two calls at later times with
\* the device on at one power
C15_Witness ==
    \E d \in DeviceIds :
        LET log == LogOf(d)
        IN  /\ Len(log) = 3
            /\ log[1].at > 0
            /\ log[2].at > log[1].at
            /\ log[3].at > log[2].at
            /\ \E p \in PowerReadings : OnWith(log[2], p) /\ OnWith(log[3], p)
            /\ log[3].returned > log[2].returned
            /\ log[2].returned > 0

\* the cumulative energy a call starts from: the stored one, zero when
\* reset_energy_if_off has just cleared it
StartsFrom(o) ==
    IF o.Set_OnOff = 0 \/ o.energy_before = NoEnergy THEN 0
    ELSE o.energy_before

\* C16: an accumulate call for a device that is not actually on adds zero
\* and still moves the baseline to the time of the call, so the call that
\* next sees the device on credits the time since that call only.
C16_OffAdvancesBaseline ==
    \A d \in DeviceIds :
        LET log == LogOf(d)
        IN  /\ log # <<>> =>
                   energy_accumulated_at_by_unique_id[d] = log[Len(log)].at
            /\ \A k \in DOMAIN log :
                   /\ k > 1 => log[k].baseline_before = log[k - 1].at
                   /\ ~ActuallyOn(log[k]) => log[k].returned = StartsFrom(log[k])
                   /\ (k > 1 /\ ActuallyOn(log[k])) =>
                          log[k].returned =
                              log[k - 1].returned
                                  + log[k].Sta_ODPwrCon
                                        * (log[k].at - log[k - 1].at)

\* the device is seen off some time after its first observation and on some
\* time later
C16_Witness ==
    \E d \in DeviceIds :
        LET log == LogOf(d)
        IN  /\ Len(log) = 3
            /\ log[2].at > log[1].at
            /\ log[3].at > log[2].at
            /\ ~ActuallyOn(log[2])
            /\ ActuallyOn(log[3])
            /\ log[3].returned = log[3].Sta_ODPwrCon * (log[3].at - log[2].at)

\* C17: with the power flag off, reset_energy_if_off followed by accumulate
\* returns 0 whatever was accumulated before, and the sensor payload of a
\* poll cycle that sees the device off carries the energy 0.
C17_OffReportsZero ==
    \A d \in DeviceIds :
        LET log == LogOf(d)
        IN  /\ \A k \in DOMAIN log :
                   log[k].Set_OnOff # 1 =>
                       log[k].returned = 0 /\ log[k].reported = 0
            /\ (/\ poll_pc = "wait"
                /\ \E i \in DOMAIN airconds :
                       airconds[i].unique_id = d /\ ~is_on(airconds[i]))
                   => /\ log # <<>>
                      /\ log[Len(log)].returned = 0
                      /\ \E i \in DOMAIN airconds :
                             /\ airconds[i].unique_id = d
                             /\ pub_log[Len(pub_log)].topic = SensorTopic(d)
                             /\ pub_log[Len(pub_log)].payload =
                                    PayloadStr(SensorPayload(airconds[i], 0))

\* a device that had accumulated energy is seen off
C17_Witness ==
    \E d \in DeviceIds :
        LET log == LogOf(d)
        IN  /\ Len(log) = 3
            /\ log[2].returned > 0
            /\ log[3].energy_before > 0
            /\ log[3].Set_OnOff = 0
            /\ log[3].returned = 0
            /\ poll_pc = "wait"
            /\ energy_by_unique_id[d] = 0

\* C18: the cumulative energy of a device does not decrease from one
\* observation to the next when the power flag is on at both, and it becomes
\* smaller only by becoming zero at an observation with the power flag off.
C18_EnergyMonotoneWhileOn ==
    \A d \in DeviceIds :
        LET log == LogOf(d)
        IN  /\ log # <<>> =>
                   EnergyOf(energy_by_unique_id, d) = log[Len(log)].returned
            /\ \A k \in 1 .. Len(log) - 1 :
                   /\ (log[k].Set_OnOff = 1 /\ log[k + 1].Set_OnOff = 1)
                          => log[k + 1].returned >= log[k].returned
                   /\ log[k + 1].returned < log[k].returned
                          => /\ log[k + 1].returned = 0
                             /\ log[k + 1].Set_OnOff # 1

\* energy grew while the device was on, stayed while it drew no power, and
\* was reset when it was seen off
C18_Witness ==
    \E d \in DeviceIds :
        LET log == LogOf(d)
        IN  /\ Len(log) = 3
            /\ log[1].Set_OnOff = 1
            /\ log[2].Set_OnOff = 1
            /\ log[2].returned > log[1].returned
            /\ log[3].Set_OnOff = 0
            /\ log[3].returned = 0

(***************************************************************************)
(* Claims about the derivation of the published state (SpecState)          *)
(***************************************************************************)
\* C19: a poll cycle does not crash on vendor codes.  Whatever state the
\* fetch returns (a mode code that is no known mode on a powered-on device, a
\* fan or swing code that is no known code, such as the default fan code 0),
\* the poll loop does not fail and run is not left.
C19_NoCrashOnVendorCodes ==
    /\ poll_pc # "failed"
    /\ run_pc \notin {"offline_pub", "exited"}

\* the status payload with its mode replaced by "off"
StatusPayloadOff(aircond) ==
    DictPayload(<< <<"mode", [s |-> "off"]>> >>
                    \o Tail(StatusPayload(aircond).dict))

\* C20: whenever publish_aircond_state has handed the publisher the status
\* payload of a device whose power flag is off, the mode of that payload is
\* "off", whatever the mode code of the device is.
C20_OffOverridesMode ==
    \A d \in DeviceIds :
        (StatusHandedOver(d) /\ ~is_on(Head(poll_queue).aircond))
            => /\ pub_log[Len(pub_log)].payload =
                      PayloadStr(StatusPayloadOff(Head(poll_queue).aircond))
               /\ bus[Len(bus)].topic = StatusTopic(d)
               /\ bus[Len(bus)].payload = pub_log[Len(pub_log)].payload

\* status payloads were handed over for a powered-off device whose mode code
\* is that of cooling
C20_Witness ==
    \E d \in DeviceIds :
        /\ StatusHandedOver(d)
        /\ Head(poll_queue).aircond.shadowState.Set_OnOff = 0
        /\ Head(poll_queue).aircond.shadowState.Set_Mode = 1
        /\ bus[Len(bus)].topic = StatusTopic(d)

\* the preset flags in the order of their priority, and the preset each
\* stands for
PresetFlags == <<"Set_Turbo", "Set_Breeze", "Set_Ecoplus", "Set_Sleep">>

PresetNames == <<"boost", "comfort", "eco", "sleep">>

\* the preset of the highest-priority flag that is set, "none" without one
HighestPreset(shadow) ==
    LET set == {i \in DOMAIN PresetFlags : shadow[PresetFlags[i]] = 1}
    IN  IF set = {} THEN "none"
        ELSE PresetNames[CHOOSE i \in set : \A j \in set : i <= j]

\* the status payload with its preset replaced
StatusPayloadWithPreset(aircond, preset) ==
    DictPayload(SubSeq(StatusPayload(aircond).dict, 1, 6)
                    \o << <<"preset_mode", [s |-> preset]>> >>)

\* C21: whenever publish_aircond_state has handed the publisher the status
\* payload of a device, its preset is that of the highest-priority preset
\* flag that is set, in the order turbo (boost), breeze (comfort), eco-plus
\* (eco), sleep, and "none" when no flag is set.
C21_PresetPriority ==
    \A d \in DeviceIds :
        StatusHandedOver(d) =>
            LET aircond == Head(poll_queue).aircond
            IN  pub_log[Len(pub_log)].payload =
                    PayloadStr(StatusPayloadWithPreset(
                        aircond, HighestPreset(aircond.shadowState)))

\* a status payload was handed over for a device with turbo and eco-plus
\* both set, and it reports "boost"
C21_Witness ==
    \E d \in DeviceIds :
        /\ StatusHandedOver(d)
        /\ Head(poll_queue).aircond.shadowState.Set_Turbo = 1
        /\ Head(poll_queue).aircond.shadowState.Set_Ecoplus = 1
        /\ pub_log[Len(pub_log)].payload =
               PayloadStr(StatusPayloadWithPreset(Head(poll_queue).aircond,
                                                  "boost"))

\* publish_sensor_state has just handed the sensor payload of the fetched
\* device aircond to the publisher: it is the last publish of the cycle
SensorHandedOver(aircond) ==
    /\ poll_pc = "wait"
    /\ poll_queue = <<>>
    /\ aircond = airconds[Len(airconds)]
    /\ energy_log # <<>>
    /\ pub_log[Len(pub_log)].topic = SensorTopic(aircond.unique_id)
    /\ pub_log[Len(pub_log)].only_if_changed

\* the power of the three-signal rule: the raw reading when the power-set
\* flag is 1, the on-property holds and the reading is positive, else 0
AgreedPower(aircond) ==
    IF /\ aircond.shadowState.Set_OnOff = 1
       /\ is_on(aircond)
       /\ aircond.shadowState.Sta_ODPwrCon > 0
    THEN aircond.shadowState.Sta_ODPwrCon
    ELSE 0

\* the sensor payload with its power replaced, the energy being the one the
\* accumulate call of this publish returned
SensorPayloadWithPower(aircond, power) ==
    DictPayload(
        << <<"Sta_ODPwrCon", [i |-> power]>> >>
            \o Tail(SensorPayload(
                        aircond, energy_log[Len(energy_log)].returned).dict))

\* C22: whenever publish_sensor_state has handed the publisher the sensor
\* payload of a device, its power is the raw reading when the power-set flag
\* is 1, the on-property holds and the reading is positive, and 0 otherwise.
C22_SensorPower ==
    \A i \in DOMAIN airconds :
        SensorHandedOver(airconds[i]) =>
            pub_log[Len(pub_log)].payload =
                PayloadStr(SensorPayloadWithPower(airconds[i],
                                                  AgreedPower(airconds[i])))

\* a sensor payload with power 0 was handed over for a device that is on
\* with a raw reading of 0
C22_Witness ==
    \E i \in DOMAIN airconds :
        /\ SensorHandedOver(airconds[i])
        /\ airconds[i].shadowState.Set_OnOff = 1
        /\ airconds[i].shadowState.Sta_ODPwrCon = 0
        /\ pub_log[Len(pub_log)].payload =
               PayloadStr(SensorPayloadWithPower(airconds[i], 0))

\* publish_aircond_state has just handed the availability payload of the
\* fetched device d to the publisher, after its status payload
AvailabilityHandedOver(d) ==
    /\ poll_pc = "publish"
    /\ poll_queue # <<>>
    /\ Head(poll_queue).what = "sensor"
    /\ Head(poll_queue).aircond.unique_id = d
    /\ Len(pub_log) >= 2
    /\ pub_log[Len(pub_log)].topic = AvailabilityTopic(d)
    /\ pub_log[Len(pub_log) - 1].topic = StatusTopic(d)

\* C23: the payload published on a device's availability topic is "online"
\* exactly when the event type of its state is "connected" and "offline"
\* otherwise, whatever the power flag is; the status payload published just
\* before it for a powered-off device carries the mode "off".
C23_AvailabilityFollowsConnectivity ==
    \A d \in DeviceIds :
        AvailabilityHandedOver(d) =>
            LET aircond == Head(poll_queue).aircond
                connected == aircond.shadowState.eventType = "connected"
            IN  /\ pub_log[Len(pub_log)].payload \in {"online", "offline"}
                /\ pub_log[Len(pub_log)].payload = "online" <=> connected
                /\ bus[Len(bus)].topic = AvailabilityTopic(d)
                /\ bus[Len(bus)].payload = pub_log[Len(pub_log)].payload
                /\ aircond.shadowState.Set_OnOff = 0 =>
                       pub_log[Len(pub_log) - 1].payload =
                           PayloadStr(StatusPayloadOff(aircond))

\* a powered-off, connected device was published with mode "off" and
\* availability "online"
C23_Witness ==
    \E d \in DeviceIds :
        /\ AvailabilityHandedOver(d)
        /\ Head(poll_queue).aircond.shadowState.Set_OnOff = 0
        /\ Head(poll_queue).aircond.shadowState.eventType = "connected"
        /\ pub_log[Len(pub_log)].payload = "online"
        /\ pub_log[Len(pub_log) - 1].payload =
               PayloadStr(StatusPayloadOff(Head(poll_queue).aircond))

(***************************************************************************)
(* Claims about the order of the publishes of a run                        *)
(***************************************************************************)
DiscoveryTopics(d) == {DiscoveryTopic(d), SensorDiscoveryTopic(d)}

StateTopics(d) == {StatusTopic(d), AvailabilityTopic(d), SensorTopic(d)}

IsDiscoveryTopic(topic) == \E d \in DeviceIds : topic \in DiscoveryTopics(d)

IsStateTopic(topic) == \E d \in DeviceIds : topic \in StateTopics(d)

\* the positions of the publishes made on a topic
CallsOn(topic) == {i \in DOMAIN pub_log : pub_log[i].topic = topic}

\* C24 (SpecCtl): the bridge-online announcement is the first publish of a
\* run; when a state payload is published, every discovery document of every
\* device has been published before it and after the announcement; and no
\* discovery document is published a second time, in whatever poll cycle.
C24_DiscoveryOnceAtStartup ==
    /\ pub_log # <<>> =>
           /\ pub_log[1].topic = BRIDGE_AVAILABILITY_TOPIC
           /\ pub_log[1].payload = "online"
           /\ ~pub_log[1].only_if_changed
    /\ \A j \in DOMAIN pub_log :
           IsStateTopic(pub_log[j].topic) =>
               \A d \in DeviceIds : \A topic \in DiscoveryTopics(d) :
                   \E i \in 2 .. j - 1 :
                       /\ pub_log[i].topic = topic
                       /\ pub_log[i].transmitted
    /\ \A d \in DeviceIds : \A topic \in DiscoveryTopics(d) :
           Cardinality(CallsOn(topic)) <= 1

\* two poll cycles have published the state of a device, the second after an
\* early wake, and its discovery documents were published once
C24_Witness ==
    \E d \in DeviceIds :
        /\ poll_pc = "wait"
        /\ Cardinality(CallsOn(StatusTopic(d))) = 2
        /\ Cardinality(CallsOn(SensorTopic(d))) = 2
        /\ \A topic \in DiscoveryTopics(d) : Cardinality(CallsOn(topic)) = 1
        /\ handled # {}
        /\ ntimeouts = 0

\* the publishes of the poll loop, in call order
PollLog ==
    SelectSeq(pub_log, LAMBDA r : r.topic # BRIDGE_AVAILABILITY_TOPIC)

\* C25 (SpecCtl): in every poll cycle the status payload of a device is
\* handed to the publisher before its sensor payload.  Every publish on a
\* device's sensor topic comes second after a publish on its status topic
\* among the publishes of the poll loop, with the device's availability
\* between them, and every publish on a status topic follows a discovery
\* document or the sensor publish that ended the cycle before.
C25_StatusBeforeSensor ==
    \A d \in DeviceIds : \A i \in DOMAIN PollLog :
        /\ PollLog[i].topic = SensorTopic(d) =>
               /\ i > 2
               /\ PollLog[i - 2].topic = StatusTopic(d)
               /\ PollLog[i - 1].topic = AvailabilityTopic(d)
        /\ PollLog[i].topic = StatusTopic(d) =>
               /\ i > 1
               /\ \/ IsDiscoveryTopic(PollLog[i - 1].topic)
                  \/ \E e \in DeviceIds : PollLog[i - 1].topic = SensorTopic(e)

\* the second cycle has published the status and then the sensor payload of
\* a device, the status publish being skipped as unchanged
C25_Witness ==
    \E d \in DeviceIds :
        /\ Len(PollLog) = 8
        /\ PollLog[6].topic = StatusTopic(d)
        /\ ~PollLog[6].transmitted
        /\ PollLog[8].topic = SensorTopic(d)

(***************************************************************************)
(* Claims about failures of the poll loop                                  *)
(***************************************************************************)
\* the device-list fetch the poll loop awaits ends without a device list
FetchFails ==
    /\ poll_pc \in {"discovery_fetch", "fetch"}
    /\ poll_pc' # poll_pc
    /\ run_pc' = run_pc
    /\ poll_queue' = poll_queue
    /\ airconds' = airconds

OfflineAnnounced ==
    \E i \in DOMAIN pub_log :
        /\ pub_log[i].topic = BRIDGE_AVAILABILITY_TOPIC
        /\ pub_log[i].payload = "offline"

\* C26 (SpecCtlFair): a failed device-list fetch is not retried.  The fetch
\* that fails ends the poll loop; once the poll loop has failed it stays
\* failed, starts no fetch and makes no publish; and the failure leaves
\* Controller.run: run ends, after a bridge-offline publish was issued.
C26_NoRetryOfFailedFetch ==
    /\ [][FetchFails => poll_pc' = "failed"]_vars
    /\ [][poll_pc = "failed" =>
              /\ poll_pc' = "failed"
              /\ poll_queue' = poll_queue
              /\ airconds' = airconds
              /\ PollLog' = PollLog]_vars
    /\ (poll_pc = "failed") ~> (run_pc = "exited" /\ OfflineAnnounced)

\* the fetch of the first refresh failed after the discovery documents were
\* published, and run has ended with the bridge-offline announcement
C26_Witness ==
    /\ poll_pc = "failed"
    /\ run_pc = "exited"
    /\ Len(PollLog) = 2
    /\ Len(pub_log) = 4
    /\ IsBridgePublish(pub_log[4], "offline")
    /\ msg_pc = "cancelled"

(***************************************************************************)
(* Claims about preset commands (checked under SpecPreset)                 *)
(***************************************************************************)
IsUnknownPreset(m) ==
    /\ m.key = "preset_mode"
    /\ m.payload \notin {"none", "comfort", "eco", "boost", "sleep"}

\* the desired state sets every preset flag to 0 and nothing to another value
ClearsPresets(desired) ==
    /\ \A f \in DOMAIN PresetFlags :
           \E i \in DOMAIN desired : desired[i] = <<PresetFlags[f], 0>>
    /\ \A i \in DOMAIN desired : desired[i][2] = 0

\* C27: a preset_mode command whose value is no known preset, for a device
\* the bridge knows, is handled as preset "none".  The step that takes it
\* issues one patch request for the device whose desired state clears the
\* preset flags, and does not end the message loop; when the request
\* returns, the command is handled, the signal is set and the device's
\* preset flags are 0.
C27_UnknownPresetIsNone ==
    /\ [][(ncmds' # ncmds /\ IsUnknownPreset(message')
              /\ message'.unique_id \in airconds_by_unique_id)
             => /\ msg_pc' = "patch"
                /\ Len(patches') = Len(patches) + 1
                /\ patches'[Len(patches')].id = message'.id
                /\ patches'[Len(patches')].unique_id = message'.unique_id
                /\ ClearsPresets(patches'[Len(patches')].desired)]_vars
    /\ [][(msg_pc = "patch" /\ IsUnknownPreset(message) /\ msg_pc' = "recv")
             => /\ preempt_state_refresh'
                /\ message.id \in handled'
                /\ \A f \in DOMAIN PresetFlags :
                       server'[message.unique_id][PresetFlags[f]] = 0]_vars

\* preset "eco" was set, then the unknown preset "turbo" was handled: the
\* eco-plus flag is cleared and the signal is set
C27_Witness ==
    /\ ncmds = 2
    /\ patches[1].desired[1] = <<"Set_Ecoplus", 1>>
    /\ message.payload = "turbo"
    /\ handled = {1, 2}
    /\ msg_pc = "recv"
    /\ preempt_state_refresh
    /\ server[message.unique_id].Set_Ecoplus = 0

(***************************************************************************)
(* Claims about the preemption signal (checked under SpecCmd)              *)
(***************************************************************************)
\* the poll cycles that have published the state of device d
Cycles(d) == Cardinality(CallsOn(StatusTopic(d)))

\* the cycles that began with an early wake: all but the first and those
\* the refresh interval began (the poll loop being in wait_for)
EarlyWakes(d) == Cycles(d) - 1 - ntimeouts

\* C28: the preemption signal is a flag, not a counter.  wait_for ends early
\* only when the signal is set; the step in which the poll loop goes on after
\* an early wake leaves the signal clear and sends the fetch; and whenever
\* the poll loop waits with the signal clear, the commands handled so far,
\* however many, have caused at least one early wake and no more wakes than
\* there are commands.
C28_SignalIsFlag ==
    /\ [][(poll_pc = "wait" /\ poll_pc' = "woken")
              => preempt_state_refresh]_vars
    /\ [][(poll_pc = "woken" /\ poll_pc' # "woken" /\ run_pc' = run_pc)
              => ~preempt_state_refresh' /\ poll_pc' = "fetch"]_vars
    /\ []((poll_pc = "wait" /\ ~preempt_state_refresh) =>
              \A d \in UniqueIds(airconds) :
                  IF handled = {} THEN EarlyWakes(d) = 0
                  ELSE EarlyWakes(d) \in 1 .. Cardinality(handled))

\* two commands were handled before the poll loop went on after its wake:
\* one early wake, and the poll loop waits again with the signal clear
C28_Witness ==
    /\ poll_pc = "wait"
    /\ ~preempt_state_refresh
    /\ handled = {1, 2}
    /\ Len(patches) = 2
    /\ ntimeouts = 0
    /\ \A d \in DeviceIds : EarlyWakes(d) = 1

(***************************************************************************)
(* Claims about the end of a run                                           *)
(***************************************************************************)
\* a publish made after the bridge-offline announcement
PublishAfterOffline ==
    \E i \in DOMAIN pub_log : \E j \in DOMAIN pub_log :
        /\ i < j
        /\ IsBridgePublish(pub_log[i], "offline")
        /\ pub_log[j].topic # BRIDGE_AVAILABILITY_TOPIC

\* C29 (SpecCtl): a fatal error in one task unwinds both.  Once the poll
\* loop or the message loop has failed, no patch request is issued, no fetch
\* is started and no publish is made other than the bridge-offline
\* announcement, so that the announcement is the last publish of the run.
C29_FatalErrorUnwindsBoth ==
    /\ [][TaskFailed =>
              /\ patches' = patches
              /\ poll_pc' \in {"discovery_fetch", "fetch"} => poll_pc' = poll_pc
              /\ pub_log' # pub_log =>
                     IsBridgePublish(pub_log'[Len(pub_log')], "offline")]_vars
    /\ [](~PublishAfterOffline)

(***************************************************************************)
(* The gated publisher against an ungated one (checked under SpecPub)      *)
(***************************************************************************)
\* the calls made to mqtt_publish on a topic, and the transmissions on it
PublishesOn(topic) == SelectSeq(pub_log, LAMBDA r : r.topic = topic)

TransmissionsOn(topic) == SelectSeq(bus, LAMBDA m : m.topic = topic)

\* every publish on the topic was gated and none of its transmissions failed
GatedAndDelivered(topic) ==
    \A i \in DOMAIN PublishesOn(topic) :
        /\ PublishesOn(topic)[i].only_if_changed
        /\ ~PublishesOn(topic)[i].raised

\* C30: change gating never leaves the bus stale.  On a topic that was
\* published with gating only and whose transmissions all succeeded, the
\* last payload transmitted is the payload of the most recent publish call:
\* the value an ungated publisher would have transmitted last.
C30_GatingNeverStale ==
    \A topic \in Topics :
        (PublishesOn(topic) # <<>> /\ GatedAndDelivered(topic)) =>
            /\ TransmissionsOn(topic) # <<>>
            /\ TransmissionsOn(topic)[Len(TransmissionsOn(topic))].payload =
                   PublishesOn(topic)[Len(PublishesOn(topic))].payload
            /\ TransmissionsOn(topic)[Len(TransmissionsOn(topic))].ok

\* a payload, another one, and the first again were published with gating on
\* one topic, and all three were transmitted
C30_Witness ==
    \E topic \in Topics :
        LET calls == PublishesOn(topic)
        IN  /\ Len(calls) = 3
            /\ GatedAndDelivered(topic)
            /\ calls[1].payload # calls[2].payload
            /\ calls[3].payload = calls[1].payload
            /\ Len(TransmissionsOn(topic)) = 3

(***************************************************************************)
(* Claims about commands for unknown devices and the order of commands     *)
(***************************************************************************)
\* C32 (SpecCtl): a set command for a device identifier that is not in the
\* device list fetched last (none is, before the first fetch has returned)
\* does not end the bridge.  The step that takes such a command, its value
\* being one the handler converts, issues no patch request and leaves the
\* message loop consuming messages.
C32_UnknownDeviceNotFatal ==
    [][(ncmds' # ncmds
           /\ message'.unique_id \notin airconds_by_unique_id
           /\ ~HandlerRaises(message'.key, message'.payload))
          => /\ patches' = patches
             /\ msg_pc' = "recv"
             /\ run_pc' = "gather"]_vars

\* the commands whose handling has not ended with handle_message returning
Unfinished == (1 .. ncmds) \ handled

\* C35 (SpecCmd): commands are handled one at a time in arrival order.  A
\* patch request is issued only for the command just received, when every
\* earlier command has been handled; at most one command is unfinished, and
\* only for it can a patch request be in flight; the patch requests carry the
\* commands' numbers in increasing order.
C35_OneCommandAtATime ==
    /\ [][patches' # patches =>
              /\ Len(patches') = Len(patches) + 1
              /\ SubSeq(patches', 1, Len(patches)) = patches
              /\ patches'[Len(patches')].id = ncmds'
              /\ ncmds' = ncmds + 1
              /\ \A c \in 1 .. ncmds : c \in handled]_vars
    /\ [](Cardinality(Unfinished) <= 1)
    /\ [](msg_pc = "patch" =>
              /\ Unfinished = {message.id}
              /\ patches[Len(patches)].id = message.id)
    /\ [](\A i \in DOMAIN patches : \A j \in DOMAIN patches :
              i < j => patches[i].id < patches[j].id)

\* the patch request of the second command is in flight, the first command
\* having been handled
C35_Witness ==
    /\ msg_pc = "patch"
    /\ Len(patches) = 2
    /\ handled = {1}
    /\ message.id = 2
    /\ patches[1].id = 1
    /\ patches[2].id = 2

(***************************************************************************)
(* The preset round trip (checked under SpecPresetTrip)                    *)
(***************************************************************************)
IsKnownPreset(m) ==
    /\ m.key = "preset_mode"
    /\ m.payload \in {"none", "comfort", "eco", "boost", "sleep"}

\* C34: preset round trip.  When the patch request of a preset_mode command
\* for a recognized preset has been merged into the device's shadow state,
\* the preset the status publish derives from the resulting state is the
\* preset of the command, whatever the state was before.
C34_PresetRoundTrip ==
    [][(msg_pc = "patch" /\ msg_pc' = "recv" /\ IsKnownPreset(message)) =>
           /\ server'[message.unique_id] =
                  Patched(server[message.unique_id],
                          patches[Len(patches)].desired)
           /\ PresetOf([unique_id |-> message.unique_id,
                        shadowState |-> server'[message.unique_id]])
                  = message.payload]_vars

(***************************************************************************)
(* The changing device list (checked under SpecDevices)                    *)
(***************************************************************************)
\* C31: the poll loop handles a device list that changes between polls.
\* While refresh_state publishes, the topics of every device of the fetched
\* list are registered, and the poll loop has not failed (no request and no
\* publish fails in SpecDevices and every shadow state has valid codes).
C31_ChangingDeviceList ==
    /\ poll_pc # "failed"
    /\ poll_pc = "publish" =>
           \A i \in DOMAIN poll_queue :
               poll_queue[i].aircond.unique_id \in mqtt_topics_by_unique_id

(***************************************************************************)
(* Energy state per device (checked under SpecEnergy2)                     *)
(***************************************************************************)
\* publish_sensor_state is about to run for device d
SensorTurn(d) ==
    /\ poll_pc = "publish"
    /\ poll_queue # <<>>
    /\ Head(poll_queue).what = "sensor"
    /\ Head(poll_queue).aircond.unique_id = d

\* C36: energy state is per device.  The reset_energy_if_off and accumulate
\* calls of publish_sensor_state for device a leave the cumulative energy and
\* the baseline of every other device as they were; of the baselines only
\* a's changes, to the time of the accumulate call; reset_energy_if_off
\* changes a's energy only from a positive value to zero, so it creates no
\* entry for a device that has none.
C36_EnergyPerDevice ==
    [][\A a \in CloudIds :
          (SensorTurn(a) /\ Len(energy_log') = Len(energy_log) + 1) =>
              LET aircond == Head(poll_queue).aircond
                  after_reset ==
                      reset_energy_if_off(energy_by_unique_id, aircond)
              IN  /\ \A b \in CloudIds \ {a} :
                         /\ after_reset[b] = energy_by_unique_id[b]
                         /\ energy_by_unique_id'[b] = energy_by_unique_id[b]
                         /\ energy_accumulated_at_by_unique_id'[b]
                                = energy_accumulated_at_by_unique_id[b]
                  /\ energy_accumulated_at_by_unique_id'[a] = now
                  /\ after_reset[a] # energy_by_unique_id[a] =>
                         /\ energy_by_unique_id[a] > 0
                         /\ after_reset[a] = 0
                  /\ energy_accumulated_at_by_unique_id[a] = NoTime =>
                         /\ after_reset[a] = NoEnergy
                         /\ energy_by_unique_id'[a] = NoEnergy]_vars

\* the energy of the first device was reset after it had been switched off,
\* while the second device keeps the energy it has accumulated
C36_Witness ==
    /\ \E i \in DOMAIN energy_log :
           /\ energy_log[i].unique_id = CloudDevices[1]
           /\ energy_log[i].Set_OnOff = 0
           /\ energy_log[i].energy_before > 0
           /\ energy_log[i].returned = 0
    /\ energy_by_unique_id[CloudDevices[1]] = 0
    /\ energy_by_unique_id[CloudDevices[2]] > 0
    /\ energy_accumulated_at_by_unique_id[CloudDevices[2]] # NoTime

====
